---- MODULE Spec2Model ----
(***************************************************************************)
(* A model of the hierarchical code chunking engine of                     *)
(* codebase-knowledge-generator: utils/code_chunking.py (extraction,       *)
(* directory grouping, packing, orchestration) and utils/chunk_processor.py*)
(* (prompt preparation and the batch runner), and                          *)
(* utils/keyboard_handler.py (the confirmed-exit hotkey).                  *)
(*                                                                         *)
(* Texts are modelled by what estimate_tokens sees of them: a text is a    *)
(* sequence of whitespace-separated segments, each with the number of      *)
(* tokens the regular expression of estimate_tokens finds in it.  A text   *)
(* is blank (text.strip() == "") exactly when it holds no token.           *)
(***************************************************************************)
EXTENDS Integers, Sequences, FiniteSets, TLC

VARIABLES
    pc,                     \* position of the running function
    \* ---- chunk_codebase / chunk_files
    file_paths,             \* the listed files, in input order
    file_contents,          \* path -> name of a source text (DOMAIN may miss paths)
    parser_state,           \* language -> "none" | "simple" | "grammar" | "cursorless"
    parse_raises,           \* files on which parser.parse raises
    context_length,         \* CURRENT_MODEL_CONTEXT_LENGTH
    file_idx,               \* loop index of chunk_files
    all_chunks,             \* the records handed to the packer
    result,                 \* the dictionaries chunk_codebase returns
    \* ---- create_overlapping_chunks
    max_tokens,
    overlap_tokens,
    sorted_chunks,
    chunk_idx,              \* loop index over sorted_chunks
    combined_chunks,
    current_chunk_content,
    current_chunk_tokens,
    current_files,
    current_hierarchy,
    overlap_chunks,
    \* ---- batch_process_chunks
    prepared_prompts,
    max_retries,
    prompt_idx,             \* loop index i over prepared_prompts
    retry_count,
    success,
    in_flight,              \* a call of call_llm_func is running
    results,
    call_log,               \* history: prompt index, retry, sleep and outcome of every call made
    max_concurrent,
    retry_delay,
    rng,                    \* the values random.random() returns next, in hundredths
    \* ---- process_code_for_llm, estimate_model_calls
    current_model_context_length,
    max_input_tokens,
    effective_max_tokens,
    proc_chunks,            \* chunks: what chunk_codebase returned to process_code_for_llm
    chunk_pos,              \* loop index over proc_chunks
    estimate,               \* the dictionary estimate_model_calls returns
    \* ---- the calling process
    MODEL_CONTEXT_LENGTH,   \* the module constant, set when the module was imported
    running,                \* the function the caller invoked
    calls,                  \* history: the calls that returned, with inputs and output
    \* ---- setup_exit_handler (keyboard_handler.py)
    confirm_state,          \* the dictionary shared by the hotkey callback and the reset thread
    clock,                  \* what time.time() returns, in seconds
    key_pc,                 \* position of the hotkey callback on_exit_key
    press_at,               \* time of the press the callback is serving
    reset_pc,               \* position of the thread reset_confirmation
    wake_at,                \* earliest time the sleep of the reset thread ends
    asked_at,               \* history: time of the standing request for confirmation
    key_log,                \* history: the presses served, with their outcome
    signal_sent             \* os.kill(os.getpid(), SIGTERM) was called

chunkVars == <<file_paths, file_contents, parser_state, parse_raises,
               context_length, file_idx, all_chunks, result>>
packVars  == <<max_tokens, overlap_tokens, sorted_chunks, chunk_idx,
               combined_chunks, current_chunk_content, current_chunk_tokens,
               current_files, current_hierarchy, overlap_chunks>>
batchVars == <<prepared_prompts, max_retries, prompt_idx, retry_count, success,
               in_flight, results, call_log>>
runVars   == <<max_concurrent, retry_delay, rng>>
procVars  == <<current_model_context_length, max_input_tokens,
               effective_max_tokens, proc_chunks, chunk_pos, estimate>>
sessVars  == <<MODEL_CONTEXT_LENGTH, running, calls>>
keyVars   == <<confirm_state, clock, key_pc, press_at, reset_pc, wake_at,
               asked_at, key_log, signal_sent>>
auxVars   == <<runVars, procVars, sessVars>>
vars == <<pc, chunkVars, packVars, batchVars, auxVars, keyVars>>

----------------------------------------------------------------------------
(* Bounds of the model *)

MaxRecs == 3            \* records in a direct create_overlapping_chunks run
MaxStartLine == 1       \* start_line of such records ranges over 0..MaxStartLine
MaxFiles == 2           \* files listed in a chunk_codebase run
MaxPrompts == 2         \* prepared prompts in a batch_process_chunks run
MaxRetriesArg == 2      \* max_retries ranges over 0..MaxRetriesArg

----------------------------------------------------------------------------
(* Generic helpers *)

RECURSIVE SumSeq(_)
SumSeq(s) == IF s = <<>> THEN 0 ELSE Head(s) + SumSeq(Tail(s))

Range(s) == { s[k] : k \in DOMAIN s }

BoundedSeq(S, n) == UNION { [1..m -> S] : m \in 0..n }

\* estimate_tokens: text.strip() empty -> 0, otherwise the number of regex
\* matches; the matches never span whitespace, so they add up over segments.
estimate_tokens(text) == SumSeq(text)

----------------------------------------------------------------------------
(* File paths.  The paths a run may list, with the facts os.path and the    *)
(* string order of Python give about them.                                  *)

PathInfo ==
    [ p \in {"", "a.py", "b.ts", "c.txt", "d.md"} |->
        CASE p = ""      -> [rank |-> 0, dirname |-> "", ext |-> "",     base_tokens |-> 0]
          [] p = "a.py"  -> [rank |-> 1, dirname |-> "", ext |-> ".py",  base_tokens |-> 3]
          [] p = "b.ts"  -> [rank |-> 2, dirname |-> "", ext |-> ".ts",  base_tokens |-> 3]
          [] p = "c.txt" -> [rank |-> 3, dirname |-> "", ext |-> ".txt", base_tokens |-> 3]
          [] p = "d.md"  -> [rank |-> 4, dirname |-> "", ext |-> ".md",  base_tokens |-> 3] ]

\* the tokens of os.path.relpath(path, base_dir) for base_dir ".", or of the
\* path itself when base_dir is not a substring of it
RelPathTokens(path) == PathInfo[path].base_tokens

\* the header "\n# FILE: <basename>\n": '#', 'FILE', ':' and the basename's tokens
HeaderText(path) == <<3 + PathInfo[path].base_tokens>>

KeyLeq_PathOnly(a, b) ==
    PathInfo[a.file_path].rank <= PathInfo[b.file_path].rank

\* the sort key of create_overlapping_chunks: (c.file_path, c.start_line)
KeyLeq(a, b) ==
    \/ PathInfo[a.file_path].rank < PathInfo[b.file_path].rank
    \/ /\ a.file_path = b.file_path
       /\ a.start_line <= b.start_line

\* the parent_chunk reference of a record: the parent's identifying fields
NoParent == [level |-> 0, start_line |-> 0, end_line |-> 0, node_type |-> "none"]

ParentRef(c) == [level |-> c.level, start_line |-> c.start_line,
                 end_line |-> c.end_line, node_type |-> c.node_type]

\* CodeChunk.__init__: est_tokens is computed once, from the content
CodeChunk(content, file_path, lang, level, start_line, end_line, node_type, parent) ==
    [ file_path  |-> file_path,
      lang       |-> lang,
      level      |-> level,
      start_line |-> start_line,
      end_line   |-> end_line,
      node_type  |-> node_type,
      parent     |-> parent,
      est_tokens |-> estimate_tokens(content) ]

----------------------------------------------------------------------------
(* create_overlapping_chunks *)

\* int(max_tokens * overlap_ratio), the ratio given in percent
OverlapTokens(maxTok, ratioPct) == (maxTok * ratioPct) \div 100

\* sorted(chunks, key=...): a stable sort
RECURSIVE InsertSorted(_, _)
InsertSorted(s, c) ==
    IF s = <<>> THEN <<c>>
    ELSE IF KeyLeq(Head(s), c) THEN <<Head(s)>> \o InsertSorted(Tail(s), c)
    ELSE <<c>> \o s

RECURSIVE SortChunks(_)
SortChunks(s) ==
    IF s = <<>> THEN <<>>
    ELSE InsertSorted(SortChunks(SubSeq(s, 1, Len(s) - 1)), s[Len(s)])

\* a piece of a combined chunk's content: the content of record rec of
\* sorted_chunks followed by "\n", or the header of a file
RecPiece(k) == [kind |-> "rec", rec |-> k, path |-> sorted_chunks[k].file_path]
HdrPiece(p) == [kind |-> "hdr", rec |-> 0, path |-> p]

PieceTokens(piece) ==
    IF piece.kind = "rec" THEN sorted_chunks[piece.rec].est_tokens
    ELSE estimate_tokens(HeaderText(piece.path))

ContentText(content) == [k \in DOMAIN content |-> PieceTokens(content[k])]

\* CodeChunk(content=current_chunk_content, file_path=";".join(current_files),
\*           lang="mixed", level=0, node_type="combined_chunk")
CombinedChunk(content, files) ==
    [ content    |-> content,
      file_path  |-> files,
      level      |-> 0,
      node_type  |-> "combined_chunk",
      est_tokens |-> estimate_tokens(ContentText(content)) ]

\* the walk backward through current_hierarchy (indices into sorted_chunks)
RECURSIVE OverlapWalk(_, _, _, _)
OverlapWalk(hier, k, count, limit) ==
    IF k = 0 THEN <<>>
    ELSE IF count + sorted_chunks[hier[k]].est_tokens <= limit
         THEN OverlapWalk(hier, k - 1,
                          count + sorted_chunks[hier[k]].est_tokens, limit)
              \o <<hier[k]>>
         ELSE <<>>

OverlapChunks(hier, limit) == OverlapWalk(hier, Len(hier), 0, limit)

ResetsOnClose_Always(ovTokens) == TRUE

\* the buffer is reset on a close only when overlap_tokens is not positive
ResetsOnClose(ovTokens) == ~(ovTokens > 0)

PackStart ==
    /\ pc = "pack_start"
    /\ IF all_chunks = <<>>
       THEN /\ pc' = "pack_done"
            /\ sorted_chunks' = <<>>
       ELSE /\ pc' = "pack_loop"
            /\ sorted_chunks' = SortChunks(all_chunks)
    /\ chunk_idx' = 1
    /\ combined_chunks' = <<>>
    /\ current_chunk_content' = <<>>
    /\ current_chunk_tokens' = 0
    /\ current_files' = {}
    /\ current_hierarchy' = <<>>
    /\ overlap_chunks' = <<>>
    /\ UNCHANGED <<max_tokens, overlap_tokens, chunkVars, batchVars, auxVars, keyVars>>

PackStep ==
    /\ pc = "pack_loop"
    /\ chunk_idx <= Len(sorted_chunks)
    /\ LET chunk  == sorted_chunks[chunk_idx]
           closes == /\ current_chunk_tokens + chunk.est_tokens > max_tokens
                     /\ current_chunk_content # <<>>
           resets == closes /\ ResetsOnClose(overlap_tokens)
           content1 == IF resets THEN <<>> ELSE current_chunk_content
           files1   == IF resets THEN {} ELSE current_files
           tokens1  == IF resets THEN 0 ELSE current_chunk_tokens
           hier1    == IF resets THEN <<>> ELSE current_hierarchy
           header   == /\ (chunk.file_path \notin files1 \/ content1 = <<>>)
                       /\ content1 # <<>>
           content2 == IF header THEN Append(content1, HdrPiece(chunk.file_path))
                       ELSE content1
           tokens2  == IF header
                       THEN tokens1 + estimate_tokens(HeaderText(chunk.file_path))
                       ELSE tokens1
       IN /\ combined_chunks' =
                IF closes
                THEN Append(combined_chunks,
                            CombinedChunk(current_chunk_content, current_files))
                ELSE combined_chunks
          /\ overlap_chunks' =
                IF closes
                THEN IF overlap_tokens > 0
                     THEN OverlapChunks(current_hierarchy, overlap_tokens)
                     ELSE <<>>
                ELSE overlap_chunks
          /\ current_chunk_content' = Append(content2, RecPiece(chunk_idx))
          /\ current_files' = files1 \cup {chunk.file_path}
          /\ current_chunk_tokens' = tokens2 + chunk.est_tokens + 1
          /\ current_hierarchy' = Append(hier1, chunk_idx)
    /\ chunk_idx' = chunk_idx + 1
    /\ UNCHANGED <<pc, max_tokens, overlap_tokens, sorted_chunks, chunkVars, batchVars, auxVars, keyVars>>

FlushBuffer_Skipped(done, content, files) == done

\* if current_chunk_content: combined_chunks.append(CodeChunk(...)), after the loop
FlushBuffer(done, content, files) ==
    IF content # <<>> THEN Append(done, CombinedChunk(content, files)) ELSE done

PackFlush ==
    /\ pc = "pack_loop"
    /\ chunk_idx > Len(sorted_chunks)
    /\ combined_chunks' =
          FlushBuffer(combined_chunks, current_chunk_content, current_files)
    /\ pc' = "pack_done"
    /\ UNCHANGED <<max_tokens, overlap_tokens, sorted_chunks, chunk_idx,
                   current_chunk_content, current_chunk_tokens, current_files,
                   current_hierarchy, overlap_chunks, chunkVars, batchVars, auxVars, keyVars>>

----------------------------------------------------------------------------
(* A direct run of create_overlapping_chunks on any list of records *)

PackPaths == {"a.py", "b.ts"}
TokenSizes == {1, 4, 25}
MaxTokensChoices == {10, 20}
OverlapRatioChoices == {0, 20}      \* percent; 20 is the default 0.2

InputRecords ==
    { CodeChunk(<<t>>, p, "text", 2, l, l, "file", NoParent) :
        t \in TokenSizes, p \in PackPaths, l \in 0..MaxStartLine }

IdleChunk ==
    /\ file_paths = <<>>
    /\ file_contents = <<>>
    /\ parser_state = <<>>
    /\ parse_raises = {}
    /\ context_length = 0
    /\ file_idx = 0
    /\ result = <<>>

IdlePack ==
    /\ max_tokens = 0
    /\ overlap_tokens = 0
    /\ sorted_chunks = <<>>
    /\ chunk_idx = 0
    /\ combined_chunks = <<>>
    /\ current_chunk_content = <<>>
    /\ current_chunk_tokens = 0
    /\ current_files = {}
    /\ current_hierarchy = <<>>
    /\ overlap_chunks = <<>>

IdleBatch ==
    /\ prepared_prompts = <<>>
    /\ max_retries = 0
    /\ prompt_idx = 0
    /\ retry_count = 0
    /\ success = FALSE
    /\ in_flight = FALSE
    /\ results = <<>>
    /\ call_log = <<>>

IdleRun ==
    /\ max_concurrent = 0
    /\ retry_delay = 0
    /\ rng = <<>>

IdleProc ==
    /\ current_model_context_length = 0
    /\ max_input_tokens = 0
    /\ effective_max_tokens = 0
    /\ proc_chunks = <<>>
    /\ chunk_pos = 0
    /\ estimate = <<>>

\* setup_exit_handler was not called
IdleKeys ==
    /\ confirm_state = [pending |-> FALSE, timestamp |-> 0]
    /\ clock = 0
    /\ key_pc = "off"
    /\ press_at = 0
    /\ reset_pc = "off"
    /\ wake_at = 0
    /\ asked_at = 0
    /\ key_log = <<>>
    /\ signal_sent = FALSE

\* the module constant holds the value the environment had at import
ImportedAt(L) ==
    /\ MODEL_CONTEXT_LENGTH = L
    /\ calls = <<>>

InitPack ==
    /\ pc = "pack_start"
    /\ all_chunks \in BoundedSeq(InputRecords, MaxRecs)
    /\ max_tokens \in MaxTokensChoices
    /\ \E r \in OverlapRatioChoices : overlap_tokens = OverlapTokens(max_tokens, r)
    /\ sorted_chunks = <<>>
    /\ chunk_idx = 0
    /\ combined_chunks = <<>>
    /\ current_chunk_content = <<>>
    /\ current_chunk_tokens = 0
    /\ current_files = {}
    /\ current_hierarchy = <<>>
    /\ overlap_chunks = <<>>
    /\ IdleChunk
    /\ IdleBatch
    /\ IdleRun
    /\ IdleProc
    /\ IdleKeys
    /\ ImportedAt(0)
    /\ running = "create_overlapping_chunks"

NextPack == PackStart \/ PackStep \/ PackFlush

SpecPack == InitPack /\ [][NextPack]_vars

\* The same run on lists of larger records only: every record takes a good
\* part of max_tokens or exceeds it, in any input order.
RunTokenSizes == {4, 25}

RunRecords == { c \in InputRecords : c.est_tokens \in RunTokenSizes }

InitPackRun ==
    /\ pc = "pack_start"
    /\ all_chunks \in BoundedSeq(RunRecords, MaxRecs)
    /\ max_tokens \in MaxTokensChoices
    /\ \E r \in OverlapRatioChoices : overlap_tokens = OverlapTokens(max_tokens, r)
    /\ sorted_chunks = <<>>
    /\ chunk_idx = 0
    /\ combined_chunks = <<>>
    /\ current_chunk_content = <<>>
    /\ current_chunk_tokens = 0
    /\ current_files = {}
    /\ current_hierarchy = <<>>
    /\ overlap_chunks = <<>>
    /\ IdleChunk
    /\ IdleBatch
    /\ IdleRun
    /\ IdleProc
    /\ IdleKeys
    /\ ImportedAt(0)
    /\ running = "create_overlapping_chunks"

SpecPackRun == InitPackRun /\ [][NextPack]_vars

----------------------------------------------------------------------------
(* Claims about create_overlapping_chunks *)

\* the records (indices into sorted_chunks) whose content a combined chunk holds
RecordsOf(ch) == { ch.content[k].rec : k \in { j \in DOMAIN ch.content :
                                                ch.content[j].kind = "rec" } }

NumRecordPieces(ch) ==
    Cardinality({ j \in DOMAIN ch.content : ch.content[j].kind = "rec" })

\* a combined chunk made of one record whose own estimate exceeds max_tokens
SingleOversized(ch) ==
    /\ NumRecordPieces(ch) = 1
    /\ \A r \in RecordsOf(ch) : sorted_chunks[r].est_tokens > max_tokens

RECURSIVE SumTokens(_)
SumTokens(S) ==
    IF S = {} THEN 0
    ELSE LET r == CHOOSE x \in S : TRUE
         IN sorted_chunks[r].est_tokens + SumTokens(S \ {r})

\* C1: every PackedChunk produced by create_overlapping_chunks has
\* token_count <= max_tokens, except a PackedChunk that consists of a single
\* record whose own estimate exceeds max_tokens.
C1_TokenBudget ==
    \A k \in DOMAIN combined_chunks :
        \/ combined_chunks[k].est_tokens <= max_tokens
        \/ SingleOversized(combined_chunks[k])

\* C3: for any two consecutive PackedChunks of one run, the estimated tokens of
\* the records contained in both are at most overlap_ratio * max_tokens, up to
\* one extra indivisible record.
C3_OverlapBound ==
    \A k \in DOMAIN combined_chunks :
        k + 1 \in DOMAIN combined_chunks =>
            LET shared == RecordsOf(combined_chunks[k])
                              \cap RecordsOf(combined_chunks[k + 1])
            IN \/ SumTokens(shared) <= overlap_tokens
               \/ \E r \in shared : SumTokens(shared \ {r}) <= overlap_tokens

\* C9: a record whose own estimate exceeds max_tokens is never dropped and is
\* emitted in a PackedChunk of its own (holding that record and no other),
\* wherever the record falls in the sorted sequence.
C9_OversizedAlone ==
    pc = "pack_done" =>
        \A r \in DOMAIN sorted_chunks :
            sorted_chunks[r].est_tokens > max_tokens =>
                \E k \in DOMAIN combined_chunks :
                    /\ RecordsOf(combined_chunks[k]) = {r}
                    /\ NumRecordPieces(combined_chunks[k]) = 1

\* the records (indices into sorted_chunks) of a combined chunk, in the order
\* their content appears in it
RecordSeq(ch) ==
    LET IsRec(piece) == piece.kind = "rec"
        recs == SelectSeq(ch.content, IsRec)
    IN [k \in DOMAIN recs |-> recs[k].rec]

IsPrefix(s, t) == Len(s) <= Len(t) /\ SubSeq(t, 1, Len(s)) = s

\* the record whose arrival closed combined chunk k: the one after its last
TriggerOf(k) ==
    LET recs == RecordSeq(combined_chunks[k]) IN recs[Len(recs)] + 1

\* C23: when a record would exceed max_tokens the buffer is closed, and the
\* next PackedChunk starts with exactly the longest run of the closed chunk's
\* most recent records of at most overlap_tokens tokens in all, in their
\* order, followed by the record that triggered the close; no earlier record
\* of the closed chunk is repeated in the next chunk.
C23_OverlapSlice ==
    \A k \in DOMAIN combined_chunks :
        k + 1 \in DOMAIN combined_chunks =>
            LET closed == RecordSeq(combined_chunks[k])
                slice  == OverlapChunks(closed, overlap_tokens)
            IN /\ IsPrefix(slice \o <<TriggerOf(k)>>,
                           RecordSeq(combined_chunks[k + 1]))
               /\ RecordsOf(combined_chunks[k]) \cap RecordsOf(combined_chunks[k + 1])
                     = Range(slice)

\* the number of times record c occurs in the list s
Occurrences(s, c) == Cardinality({ i \in DOMAIN s : s[i] = c })

\* the combined chunks whose content holds record r of sorted_chunks
ChunksHolding(r) == { k \in DOMAIN combined_chunks : r \in RecordsOf(combined_chunks[k]) }

\* C24: every record passed to create_overlapping_chunks has its content in at
\* least one returned PackedChunk: the buffer left after the last record is
\* flushed as the final PackedChunk; an empty record list yields an empty result.
C24_EveryRecordPacked ==
    pc = "pack_done" =>
        /\ \A c \in Range(all_chunks) :
              Occurrences(sorted_chunks, c) = Occurrences(all_chunks, c)
        /\ \A r \in DOMAIN sorted_chunks : ChunksHolding(r) # {}
        /\ all_chunks # <<>> =>
              Len(sorted_chunks) \in RecordsOf(combined_chunks[Len(combined_chunks)])
        /\ all_chunks = <<>> => combined_chunks = <<>>

\* a run of three records that closed the buffer once: the last record is in
\* the flushed buffer only
C24_Witness ==
    /\ pc = "pack_done"
    /\ Len(all_chunks) = 3
    /\ Len(combined_chunks) >= 2
    /\ ChunksHolding(3) = {Len(combined_chunks)}

SameKey(a, b) == a.file_path = b.file_path /\ a.start_line = b.start_line

\* the records of list s that have the sort key of record c, in their order
WithKeyOf(s, c) ==
    LET Has(x) == SameKey(x, c) IN SelectSeq(s, Has)

\* the records of a combined chunk follow the order of sorted_chunks; those of
\* one file are next to each other and in start_line order
FileRunsInOrder(ch) ==
    LET recs == RecordSeq(ch)
    IN \A i, j \in DOMAIN recs :
          i < j =>
            /\ recs[i] < recs[j]
            /\ sorted_chunks[recs[i]].file_path = sorted_chunks[recs[j]].file_path
               => /\ sorted_chunks[recs[i]].start_line <= sorted_chunks[recs[j]].start_line
                  /\ \A m \in i..j : sorted_chunks[recs[m]].file_path
                                        = sorted_chunks[recs[i]].file_path

\* C25: create_overlapping_chunks consumes the records in ascending
\* (file_path, start_line) order whatever the order of its input list, records
\* of equal key in their input order; so within every PackedChunk the records
\* of one file are contiguous and in start_line order.
C25_SortedConsumption ==
    pc \in {"pack_loop", "pack_done"} /\ all_chunks # <<>> =>
        /\ Len(sorted_chunks) = Len(all_chunks)
        /\ \A i, j \in DOMAIN sorted_chunks :
              i < j =>
                /\ KeyLeq(sorted_chunks[i], sorted_chunks[j])
                /\ PathInfo[sorted_chunks[i].file_path].rank
                      <= PathInfo[sorted_chunks[j].file_path].rank
                /\ sorted_chunks[i].file_path = sorted_chunks[j].file_path
                   => sorted_chunks[i].start_line <= sorted_chunks[j].start_line
        /\ \A c \in Range(all_chunks) :
              WithKeyOf(sorted_chunks, c) = WithKeyOf(all_chunks, c)
        /\ current_hierarchy = [k \in 1..Len(current_hierarchy) |->
                                  current_hierarchy[1] + k - 1]
        /\ \A k \in DOMAIN combined_chunks : FileRunsInOrder(combined_chunks[k])

\* an input list given out of order, with two records of one key, packed into
\* a PackedChunk that holds records of two files
C25_Witness ==
    /\ pc = "pack_done"
    /\ Len(all_chunks) = 3
    /\ KeyLeq(all_chunks[3], all_chunks[1]) /\ ~KeyLeq(all_chunks[1], all_chunks[3])
    /\ \E i, j \in DOMAIN all_chunks :
          i # j /\ SameKey(all_chunks[i], all_chunks[j]) /\ all_chunks[i] # all_chunks[j]
    /\ \E k \in DOMAIN combined_chunks :
          Cardinality(combined_chunks[k].file_path) = 2

----------------------------------------------------------------------------
(* batch_process_chunks *)

\* The messages the generation function's exceptions carry, as characters.
ErrorText ==
    [ m \in {"Reset", "EOF", "bad key"} |->
        CASE m = "Reset"   -> <<"R", "e", "s", "e", "t">>
          [] m = "EOF"     -> <<"E", "O", "F">>
          [] m = "bad key" -> <<"b", "a", "d", " ", "k", "e", "y">> ]

ErrorMessages == DOMAIN ErrorText

Spell(w) ==
    CASE w = "connection"  -> <<"c", "o", "n", "n", "e", "c", "t", "i", "o", "n">>
      [] w = "timeout"     -> <<"t", "i", "m", "e", "o", "u", "t">>
      [] w = "peer closed" -> <<"p", "e", "e", "r", " ", "c", "l", "o", "s", "e", "d">>
      [] w = "reset"       -> <<"r", "e", "s", "e", "t">>
      [] w = "eof"         -> <<"e", "o", "f">>
      [] w = "broken pipe" -> <<"b", "r", "o", "k", "e", "n", " ", "p", "i", "p", "e">>
      [] w = "socket"      -> <<"s", "o", "c", "k", "e", "t">>
      [] w = "network"     -> <<"n", "e", "t", "w", "o", "r", "k">>
      [] w = "incomplete"  -> <<"i", "n", "c", "o", "m", "p", "l", "e", "t", "e">>

connection_keywords ==
    { "connection", "timeout", "peer closed", "reset", "eof", "broken pipe",
      "socket", "network", "incomplete" }

\* str.lower(), on the letters the messages use
LowerChar(c) ==
    CASE c = "R" -> "r" [] c = "E" -> "e" [] c = "O" -> "o" [] c = "F" -> "f"
      [] OTHER -> c

Lower(text) == [k \in DOMAIN text |-> LowerChar(text[k])]

\* keyword in error_msg
Contains(text, word) ==
    \E k \in 0..(Len(text) - Len(word)) :
        \A j \in 1..Len(word) : text[k + j] = word[j]

\* any(keyword in error_msg for keyword in connection_keywords)
is_connection_error(m) ==
    \E w \in connection_keywords : Contains(Lower(ErrorText[m]), Spell(w))

ShouldRetry_NoLimit(is_conn, count, limit) == is_conn

ShouldRetry_AnyError(is_conn, count, limit) == count < limit

ShouldRetry_OffByOne(is_conn, count, limit) == is_conn /\ count + 1 < limit

\* is_connection_error and retry_count < max_retries
ShouldRetry(is_conn, count, limit) == is_conn /\ count < limit

SuccessResult(prompt_data, response) ==
    [ chunk_id |-> prompt_data.chunk_id,
      files    |-> prompt_data.files,
      response |-> response ]

FailureResult_CountsCalls(prompt_data, error, retries) ==
    [ chunk_id |-> prompt_data.chunk_id,
      files    |-> prompt_data.files,
      error    |-> error,
      retries  |-> retries + 1 ]

\* the failure entry: "error": str(e), "retries": retry_count
FailureResult(prompt_data, error, retries) ==
    [ chunk_id |-> prompt_data.chunk_id,
      files    |-> prompt_data.files,
      error    |-> error,
      retries  |-> retries ]

\* for i, prompt_data in enumerate(prepared_prompts): the head of the loop,
\* and the return after the last prompt
BatchIter ==
    /\ pc = "batch_for"
    /\ IF prompt_idx <= Len(prepared_prompts)
       THEN /\ retry_count' = 0
            /\ success' = FALSE
            /\ pc' = "batch_while"
       ELSE /\ pc' = "batch_done"
            /\ UNCHANGED <<retry_count, success>>
    /\ UNCHANGED <<prepared_prompts, max_retries, prompt_idx, in_flight, results,
                   call_log, chunkVars, packVars, auxVars, keyVars>>

\* the default values of batch_process_chunks' max_concurrent and retry_delay
DefaultMaxConcurrent == 3
DefaultRetryDelay == 5

\* 1 + (random.random() * 0.5), in two-hundredths; r is random.random() in
\* hundredths
JitterFactor(r) == 200 + r

BackoffDelay_Exponential(delay, count) == delay * 2 ^ (count - 1)

\* the delay the sleep before retry number count is computed from: retry_delay,
\* whatever the number of the retry
BackoffDelay(delay, count) == delay

\* sleep_time = retry_delay * jitter_factor, in two-hundredths of a second
SleepTime(delay, count, r) == BackoffDelay(delay, count) * JitterFactor(r)

NoSleep == [base |-> 0, jitter |-> 0, time |-> 0]

Slept(delay, count, r) ==
    [ base   |-> BackoffDelay(delay, count),
      jitter |-> JitterFactor(r),
      time   |-> SleepTime(delay, count, r) ]

\* while retry_count <= max_retries and not success: sleep before a retry,
\* then call call_llm_func
BatchAttempt ==
    /\ pc = "batch_while"
    /\ IF retry_count <= max_retries /\ ~success
       THEN /\ in_flight' = TRUE
            /\ call_log' = Append(call_log,
                  [ prompt  |-> prompt_idx,
                    retry   |-> retry_count,
                    slept   |-> IF retry_count > 0
                                THEN Slept(retry_delay, retry_count, Head(rng))
                                ELSE NoSleep,
                    done    |-> Len(results),
                    outcome |-> "pending" ])
            /\ rng' = IF retry_count > 0 THEN Tail(rng) \o <<Head(rng)>> ELSE rng
            /\ pc' = "batch_call"
            /\ UNCHANGED prompt_idx
       ELSE /\ prompt_idx' = prompt_idx + 1
            /\ pc' = "batch_for"
            /\ UNCHANGED <<in_flight, call_log, rng>>
    /\ UNCHANGED <<prepared_prompts, max_retries, retry_count, success, results,
                   max_concurrent, retry_delay, chunkVars, packVars, procVars,
                   sessVars, keyVars>>

RecordOutcome_Dropped(done, record) == done

\* results.append(record)
RecordOutcome(done, record) == Append(done, record)

\* call_llm_func returns a response
CallReturns ==
    /\ pc = "batch_call"
    /\ in_flight
    /\ in_flight' = FALSE
    /\ call_log' = [call_log EXCEPT ![Len(call_log)].outcome = "ok"]
    /\ results' = RecordOutcome(results,
                         SuccessResult(prepared_prompts[prompt_idx], "response"))
    /\ success' = TRUE
    /\ prompt_idx' = prompt_idx + 1
    /\ pc' = "batch_for"
    /\ UNCHANGED <<prepared_prompts, max_retries, retry_count, chunkVars, packVars, auxVars, keyVars>>

\* call_llm_func raises an Exception with message m
CallRaises(m) ==
    /\ pc = "batch_call"
    /\ in_flight
    /\ in_flight' = FALSE
    /\ call_log' = [call_log EXCEPT ![Len(call_log)].outcome = m]
    /\ IF ShouldRetry(is_connection_error(m), retry_count, max_retries)
       THEN /\ retry_count' = retry_count + 1
            /\ pc' = "batch_while"
            /\ UNCHANGED <<results, prompt_idx>>
       ELSE /\ results' = RecordOutcome(results,
                                 FailureResult(prepared_prompts[prompt_idx],
                                               m, retry_count))
            /\ prompt_idx' = prompt_idx + 1
            /\ pc' = "batch_for"
            /\ UNCHANGED retry_count
    /\ UNCHANGED <<prepared_prompts, max_retries, success, chunkVars, packVars, auxVars, keyVars>>

CallFails == \E m \in ErrorMessages : CallRaises(m)

\* the prepared prompts: any chunks of chunk_codebase that passed the size check
PromptLists ==
    { s \in BoundedSeq(0..(MaxPrompts - 1), MaxPrompts) :
        \A a, b \in DOMAIN s : a < b => s[a] < s[b] }

InitBatch ==
    /\ pc = "batch_for"
    /\ \E ids \in PromptLists :
          prepared_prompts = [k \in DOMAIN ids |->
                                 [chunk_id |-> ids[k], files |-> {"a.py"}]]
    /\ max_retries \in 0..MaxRetriesArg
    /\ prompt_idx = 1
    /\ retry_count = 0
    /\ success = FALSE
    /\ in_flight = FALSE
    /\ results = <<>>
    /\ call_log = <<>>
    /\ max_concurrent = DefaultMaxConcurrent
    /\ retry_delay = DefaultRetryDelay
    /\ rng = <<0>>
    /\ all_chunks = <<>>
    /\ IdleChunk
    /\ IdlePack
    /\ IdleProc
    /\ IdleKeys
    /\ ImportedAt(0)
    /\ running = "batch_process_chunks"

NextBatch == BatchIter \/ BatchAttempt \/ CallReturns \/ CallFails

SpecBatch == InitBatch /\ [][NextBatch]_vars

\* every call of the generation function returns or raises, and the loop runs on
SpecBatchFair == SpecBatch /\ WF_vars(NextBatch)

----------------------------------------------------------------------------
(* Claims about batch_process_chunks *)

\* the outcomes of the calls made for prompt k, in call order
RECURSIVE OutcomesFrom(_, _)
OutcomesFrom(log, k) ==
    IF log = <<>> THEN <<>>
    ELSE IF Head(log).prompt = k
         THEN <<Head(log).outcome>> \o OutcomesFrom(Tail(log), k)
         ELSE OutcomesFrom(Tail(log), k)

CallsFor(k) == OutcomesFrom(call_log, k)

\* the messages the claims call transient (connection-reset style, EOF style)
TransientMessages == {"Reset", "EOF"}

IsSuccessRecord(r) == "response" \in DOMAIN r /\ "error" \notin DOMAIN r

IsErrorRecord(r) == "error" \in DOMAIN r /\ "response" \notin DOMAIN r

\* C4: batch_process_chunks terminates and returns exactly one result per
\* prepared prompt, in prompt order, each a success record or an error record;
\* every prompt is submitted, whatever happened to the prompts before it.
C4_OneResultPerPrompt ==
    /\ <>(pc = "batch_done")
    /\ [](pc = "batch_done" =>
            /\ Len(results) = Len(prepared_prompts)
            /\ \A k \in DOMAIN prepared_prompts :
                  /\ results[k].chunk_id = prepared_prompts[k].chunk_id
                  /\ IsSuccessRecord(results[k]) \/ IsErrorRecord(results[k])
                  /\ Len(CallsFor(k)) >= 1)

\* an error record for the first prompt, a success record for the second
C4_Witness ==
    /\ pc = "batch_done"
    /\ Len(prepared_prompts) >= 2
    /\ Len(results) >= 2
    /\ IsErrorRecord(results[1])
    /\ IsSuccessRecord(results[2])

\* C5: the generation function is called again for the same chunk only if the
\* previous call raised a transient error and fewer than max_retries retries
\* were made for the chunk; so a chunk gets at most max_retries + 1 calls, its
\* retry counter starts at 0, and a non-transient error is terminal.
C5_RetryOnlyTransient ==
    /\ \A j \in DOMAIN call_log :
          LET before == { i \in 1..(j - 1) : call_log[i].prompt = call_log[j].prompt }
          IN /\ call_log[j].retry = Cardinality(before)
             /\ before # {} =>
                   /\ call_log[j - 1].prompt = call_log[j].prompt
                   /\ call_log[j - 1].outcome \in TransientMessages
                   /\ Cardinality(before) - 1 < max_retries
    /\ \A k \in DOMAIN prepared_prompts :
          /\ Len(CallsFor(k)) <= max_retries + 1
          /\ \A n \in DOMAIN CallsFor(k) :
                CallsFor(k)[n] \in ErrorMessages \ TransientMessages
                    => n = Len(CallsFor(k))

\* a chunk that was retried after a transient error, and a chunk whose
\* non-transient error ended it after one call
C5_Witness ==
    /\ pc = "batch_done"
    /\ \E k \in DOMAIN prepared_prompts :
          Len(CallsFor(k)) >= 2 /\ CallsFor(k)[1] \in TransientMessages
    /\ \E k \in DOMAIN prepared_prompts : CallsFor(k) = <<"bad key">>

\* the history of prompt k is n transient errors followed by a success
TransientThenOk(k, n) ==
    /\ Len(CallsFor(k)) = n + 1
    /\ \A i \in 1..n : CallsFor(k)[i] \in TransientMessages
    /\ CallsFor(k)[n + 1] = "ok"

\* C6 as stated: after k <= max_retries transient errors and a success, the
\* chunk's result is a success record that carries retries = k.
C6_SuccessCarriesRetries ==
    pc = "batch_done" =>
        \A k \in DOMAIN prepared_prompts :
            \A n \in 0..max_retries :
                TransientThenOk(k, n) =>
                    /\ IsSuccessRecord(results[k])
                    /\ "retries" \in DOMAIN results[k]
                    /\ results[k].retries = n

\* C6 amended: the runner does not give up on a chunk while its calls raise
\* transient errors and fewer than max_retries retries were made, and after
\* k <= max_retries transient errors and a success the chunk's result is a
\* success record, reached after exactly k retries; the success record has no
\* retries field.
C6_SuccessAfterRetries ==
    pc = "batch_done" =>
        \A k \in DOMAIN prepared_prompts :
            /\ CallsFor(k)[Len(CallsFor(k))] \in TransientMessages
                  => Len(CallsFor(k)) = max_retries + 1
            /\ \A n \in 0..Len(CallsFor(k)) :
                  TransientThenOk(k, n) =>
                      /\ n <= max_retries
                      /\ IsSuccessRecord(results[k])
                      /\ "retries" \notin DOMAIN results[k]

\* two transient errors, then a success, with max_retries = 2
C6_Witness ==
    /\ pc = "batch_done"
    /\ max_retries = 2
    /\ \E k \in DOMAIN prepared_prompts :
          /\ CallsFor(k) = <<"Reset", "Reset", "ok">>
          /\ IsSuccessRecord(results[k])

\* C26: every error record has retries equal to the number of retries made
\* for its chunk: 0 when the first call raised a non-transient error, j when a
\* non-transient error followed j transient ones, max_retries when transient
\* errors persisted through all max_retries + 1 calls.
C26_ErrorRetriesExact ==
    \A k \in DOMAIN results :
        IsErrorRecord(results[k]) =>
            LET tried == CallsFor(k)
                last  == tried[Len(tried)]
            IN /\ results[k].retries = Len(tried) - 1
               /\ results[k].error = last
               /\ \A n \in 1..(Len(tried) - 1) : tried[n] \in TransientMessages
               /\ last \in TransientMessages => results[k].retries = max_retries
               /\ last \in ErrorMessages

\* a chunk that failed on transient errors through all its calls, and a chunk
\* that failed on a non-transient error after one retry
C26_Witness ==
    /\ pc = "batch_done"
    /\ max_retries = 2
    /\ Len(results) = 2
    /\ CallsFor(1) = <<"Reset", "EOF", "Reset">>
    /\ IsErrorRecord(results[1]) /\ results[1].retries = 2
    /\ CallsFor(2) = <<"EOF", "bad key">>
    /\ IsErrorRecord(results[2]) /\ results[2].retries = 1

----------------------------------------------------------------------------
(* batch_process_chunks on two prompts, for any max_concurrent, retry_delay *)
(* and any values of the random generator                                   *)

MaxConcurrentChoices == {1, DefaultMaxConcurrent}

RetryDelays == {1, DefaultRetryDelay}

\* what random.random() returns, call after call (in hundredths, repeating)
RandomStreams == { <<0>>, <<50, 99>> }

InitRunner ==
    /\ pc = "batch_for"
    /\ prepared_prompts = [k \in 1..2 |-> [chunk_id |-> k - 1, files |-> {"a.py"}]]
    /\ max_retries \in 0..MaxRetriesArg
    /\ max_concurrent \in MaxConcurrentChoices
    /\ retry_delay \in RetryDelays
    /\ rng \in RandomStreams
    /\ prompt_idx = 1
    /\ retry_count = 0
    /\ success = FALSE
    /\ in_flight = FALSE
    /\ results = <<>>
    /\ call_log = <<>>
    /\ all_chunks = <<>>
    /\ IdleChunk
    /\ IdlePack
    /\ IdleProc
    /\ IdleKeys
    /\ ImportedAt(0)
    /\ running = "batch_process_chunks"

SpecRunner == InitRunner /\ [][NextBatch]_vars

\* the calls still running
PendingCalls == { j \in DOMAIN call_log : call_log[j].outcome = "pending" }

\* C18: batch_process_chunks submits one chunk at a time, whatever the value
\* of max_concurrent: at most one call of the generation function is in flight,
\* and the first call for chunk i+1 starts only after the success or error
\* record of chunk i was appended to the results.
C18_OneAtATime ==
    /\ Cardinality(PendingCalls) <= 1
    /\ \A j \in PendingCalls : j = Len(call_log) /\ in_flight
    /\ \A j \in DOMAIN call_log :
          /\ call_log[j].done = call_log[j].prompt - 1
          /\ \A k \in 1..(call_log[j].prompt - 1) :
                /\ k <= Len(results)
                /\ results[k].chunk_id = prepared_prompts[k].chunk_id
                /\ IsSuccessRecord(results[k]) \/ IsErrorRecord(results[k])
          /\ \A i \in 1..(j - 1) : call_log[i].prompt <= call_log[j].prompt

\* with max_concurrent = 3, the second prompt was called after the first one
\* was retried and recorded
C18_Witness ==
    /\ max_concurrent = 3
    /\ in_flight
    /\ call_log[Len(call_log)].prompt = 2
    /\ Len(CallsFor(1)) >= 2
    /\ Len(results) = 1

\* retry number n and retry number n + 1 of the same prompt
ConsecutiveRetries(i, j) ==
    /\ call_log[i].prompt = call_log[j].prompt
    /\ call_log[i].retry >= 1
    /\ call_log[j].retry = call_log[i].retry + 1

\* C19 as stated: apart from the jitter factor, the delay slept before retry
\* n+1 of a chunk is larger than the delay before retry n.
C19_ExponentialBackoff ==
    \A i, j \in DOMAIN call_log :
        ConsecutiveRetries(i, j) =>
            call_log[j].slept.time * call_log[i].slept.jitter
                > call_log[i].slept.time * call_log[j].slept.jitter

\* C19 amended: the first call of a chunk is not delayed; before every retry
\* the runner sleeps retry_delay times a jitter factor in [1.0, 1.5), and apart
\* from the jitter factor the delay before retry n+1 equals the delay before
\* retry n.
C19_ConstantBackoff ==
    /\ \A j \in DOMAIN call_log :
          IF call_log[j].retry = 0
          THEN call_log[j].slept.time = 0
          ELSE /\ call_log[j].slept.jitter >= 200
               /\ call_log[j].slept.jitter < 300
               /\ call_log[j].slept.time = retry_delay * call_log[j].slept.jitter
    /\ \A i, j \in DOMAIN call_log :
          ConsecutiveRetries(i, j) =>
              call_log[j].slept.time * call_log[i].slept.jitter
                  = call_log[i].slept.time * call_log[j].slept.jitter

\* a prompt retried twice, with two different jitter factors
C19_Witness ==
    \E i, j \in DOMAIN call_log :
        /\ ConsecutiveRetries(i, j)
        /\ call_log[i].slept.jitter # call_log[j].slept.jitter
        /\ call_log[i].slept.time > 0

----------------------------------------------------------------------------
(* Source texts.  A text is its list of lines (content.split('\n')); a line *)
(* has the kind the heuristic patterns give it, the declared name, and its  *)
(* token count.  An "empty" line is the zero-length line.  A "subclass"     *)
(* line ("class B(A):") matches the class pattern and, through its          *)
(* alternative \w+\s+\w+\(, the function pattern, whose name group is then  *)
(* the base class.                                                          *)

Line(kind, name, tokens) == [kind |-> kind, name |-> name, tokens |-> tokens]

SubclassLine(name, base, tokens) ==
    [kind |-> "subclass", name |-> name, base |-> base, tokens |-> tokens]

SourceLines ==
    [ src \in {"empty", "stmt", "func", "class", "twins", "late", "derived"} |->
        CASE src = "empty" -> << Line("empty", "", 0) >>
          [] src = "stmt"  -> << Line("code", "", 3) >>
          [] src = "func"  -> << Line("func", "f", 5), Line("code", "", 595),
                                 Line("empty", "", 0) >>
          [] src = "class" -> << Line("class", "A", 3), Line("func", "f", 6),
                                 Line("code", "", 591) >>
          [] src = "twins" -> << Line("class", "A", 4), Line("class", "A", 4),
                                 Line("func", "f", 7) >>
          [] src = "late"  -> << Line("func", "f", 7), Line("class", "A", 3),
                                 Line("code", "", 3) >>
          [] src = "derived" -> << Line("class", "A", 3), Line("func", "f", 9),
                                   SubclassLine("B", "A", 6), Line("func", "g", 9) >> ]

\* the texts a chunk_codebase run draws its contents from
Sources == {"empty", "stmt", "func", "class"}

\* A syntax tree, nodes in preorder: the kind of node, its first and last row,
\* and the index of its parent (0 for the root).
Node(kind, first, last, up) ==
    [kind |-> kind, start_row |-> first, end_row |-> last, up |-> up]

SourceTree ==
    [ src \in DOMAIN SourceLines |->
        CASE src = "empty" -> << Node("root", 0, 0, 0) >>
          [] src = "stmt"  -> << Node("root", 0, 0, 0), Node("statement", 0, 0, 1) >>
          [] src = "func"  -> << Node("root", 0, 2, 0), Node("function", 0, 1, 1),
                                 Node("body", 1, 1, 2), Node("statement", 1, 1, 3) >>
          [] src = "class" -> << Node("root", 0, 2, 0), Node("class", 0, 2, 1),
                                 Node("body", 1, 2, 2), Node("function", 1, 2, 3),
                                 Node("body", 2, 2, 4), Node("statement", 2, 2, 5) >>
          [] src = "twins" -> << Node("root", 0, 2, 0), Node("class", 0, 0, 1),
                                 Node("class", 1, 1, 1), Node("function", 2, 2, 1),
                                 Node("body", 2, 2, 4), Node("statement", 2, 2, 5) >>
          [] src = "late"  -> << Node("root", 0, 2, 0), Node("function", 0, 0, 1),
                                 Node("body", 0, 0, 2), Node("statement", 0, 0, 3),
                                 Node("class", 1, 2, 1), Node("body", 2, 2, 5),
                                 Node("statement", 2, 2, 6) >>
          [] src = "derived" -> << Node("root", 0, 3, 0), Node("class", 0, 1, 1),
                                   Node("body", 1, 1, 2), Node("function", 1, 1, 3),
                                   Node("body", 1, 1, 4), Node("statement", 1, 1, 5),
                                   Node("class", 2, 3, 1), Node("body", 3, 3, 7),
                                   Node("function", 3, 3, 8), Node("body", 3, 3, 9),
                                   Node("statement", 3, 3, 10) >> ]

\* node.type, as the grammar of the language names the node
NodeType(lang, kind) ==
    IF lang = "python"
    THEN CASE kind = "root"      -> "module"
           [] kind = "class"     -> "class_definition"
           [] kind = "function"  -> "function_definition"
           [] kind = "statement" -> "return_statement"
           [] OTHER              -> "block"
    ELSE CASE kind = "root"      -> "program"
           [] kind = "class"     -> "class_declaration"
           [] kind = "function"  -> "method_definition"
           [] kind = "statement" -> "return_statement"
           [] OTHER              -> "statement_block"

LANGUAGE_MAPPING ==
    [ ext \in {".py", ".ts"} |-> IF ext = ".py" THEN "python" ELSE "typescript" ]

CLASS_MODULE_TYPES(lang) ==
    IF lang = "python" THEN {"class_definition", "module"}
    ELSE {"class_declaration", "interface_declaration", "namespace_declaration",
          "module", "type_alias_declaration"}

FUNCTION_METHOD_TYPES(lang) ==
    IF lang = "python" THEN {"function_definition", "decorated_definition"}
    ELSE {"function_declaration", "method_definition", "arrow_function",
          "constructor_declaration"}

STATEMENT_TYPES(lang) ==
    IF lang = "python"
    THEN {"if_statement", "for_statement", "while_statement", "try_statement",
          "with_statement", "return_statement", "expression_statement",
          "assert_statement"}
    ELSE {"if_statement", "for_statement", "while_statement", "try_statement",
          "switch_statement", "return_statement", "expression_statement",
          "variable_declaration", "await_expression"}

\* the token counts of lines first..last (rows from 0), as lines[first:last+1]
LineTokens(lines, first, last) ==
    LET lo == first + 1
        hi == IF last + 1 > Len(lines) THEN Len(lines) ELSE last + 1
    IN IF lo > hi THEN <<>> ELSE [k \in 1..(hi - lo + 1) |-> lines[lo + k - 1].tokens]

ContentTokens(lines) == LineTokens(lines, 0, Len(lines) - 1)

\* content.count('\n')
CountNewlines(lines) == Len(lines) - 1

\* len(source_text.splitlines()): a final zero-length line is not a line
SplitLinesCount(lines) ==
    IF lines[Len(lines)].kind = "empty" THEN Len(lines) - 1 ELSE Len(lines)

RECURSIVE Flatten(_)
Flatten(ss) == IF ss = <<>> THEN <<>> ELSE Head(ss) \o Flatten(Tail(ss))

----------------------------------------------------------------------------
(* TreeSitterChunker._fallback_extract_chunks *)

ClassNodeType(name) == IF name = "A" THEN "class_A" ELSE "class_B"
FunctionNodeType(name) ==
    CASE name = "f" -> "function_f"
      [] name = "A" -> "function_A"
      [] OTHER      -> "function_g"

\* re.search(class_pattern, line)
ClassMatch(line) == line.kind \in {"class", "subclass"}

\* re.search(function_pattern, line), and its group(2)
FunctionMatch(line) == line.kind \in {"func", "subclass"}

FunctionName(line) == IF line.kind = "subclass" THEN line.base ELSE line.name

StartsClass_InsideFunction(line, current_function) == ClassMatch(line)

\* if class_match and not current_function
StartsClass(line, current_function) ==
    ClassMatch(line) /\ ~current_function.set

Unset == [set |-> FALSE, line |-> 0, name |-> ""]
Started(i, name) == [set |-> TRUE, line |-> i, name |-> name]

\* the first level-3 chunk of the class's name already in chunks, if any
FindParent(chunks, current_class) ==
    LET hits == { k \in DOMAIN chunks :
                    /\ chunks[k].level = 3
                    /\ chunks[k].node_type = ClassNodeType(current_class.name) }
    IN IF ~current_class.set \/ hits = {} THEN NoParent
       ELSE ParentRef(chunks[CHOOSE k \in hits : \A j \in hits : k <= j])

\* one iteration of the loop over the lines; i is the row of the line
FallbackLine(st, i, line, file_path, lang) ==
    IF StartsClass(line, st.current_function)
    THEN [ st EXCEPT
             !.chunks = IF st.current_class.set
                        THEN Append(@, CodeChunk(st.current_class_lines, file_path,
                                                 lang, 3, st.current_class.line, i - 1,
                                                 ClassNodeType(st.current_class.name),
                                                 NoParent))
                        ELSE @,
             !.current_class = Started(i, line.name),
             !.current_class_lines = <<line.tokens>> ]
    ELSE IF FunctionMatch(line)
    THEN [ st EXCEPT
             !.chunks = IF st.current_function.set
                        THEN Append(@, CodeChunk(st.current_function_lines, file_path,
                                                 lang, 4, st.current_function.line, i - 1,
                                                 FunctionNodeType(st.current_function.name),
                                                 FindParent(st.chunks, st.current_class)))
                        ELSE @,
             !.current_function = Started(i, FunctionName(line)),
             !.current_function_lines = <<line.tokens>>,
             !.current_class_lines = IF st.current_class.set
                                     THEN Append(@, line.tokens) ELSE @ ]
    ELSE [ st EXCEPT
             !.current_function_lines = IF st.current_function.set
                                        THEN Append(@, line.tokens) ELSE @,
             !.current_class_lines = IF st.current_class.set
                                     THEN Append(@, line.tokens) ELSE @ ]

RECURSIVE FallbackLoop(_, _, _, _, _)
FallbackLoop(st, i, lines, file_path, lang) ==
    IF i >= Len(lines) THEN st
    ELSE FallbackLoop(FallbackLine(st, i, lines[i + 1], file_path, lang),
                      i + 1, lines, file_path, lang)

fallback_extract_chunks(file_path, lines, lang, base_chunks) ==
    LET st == FallbackLoop([ chunks |-> base_chunks,
                             current_class |-> Unset,
                             current_class_lines |-> <<>>,
                             current_function |-> Unset,
                             current_function_lines |-> <<>> ],
                           0, lines, file_path, lang)
        closed_function ==
            IF st.current_function.set
            THEN Append(st.chunks,
                        CodeChunk(st.current_function_lines, file_path, lang, 4,
                                  st.current_function.line, Len(lines) - 1,
                                  FunctionNodeType(st.current_function.name),
                                  FindParent(st.chunks, st.current_class)))
            ELSE st.chunks
    IN IF st.current_class.set /\ ~st.current_function.set
       THEN Append(closed_function,
                   CodeChunk(st.current_class_lines, file_path, lang, 3,
                             st.current_class.line, Len(lines) - 1,
                             ClassNodeType(st.current_class.name), NoParent))
       ELSE closed_function

----------------------------------------------------------------------------
(* TreeSitterChunker.extract_chunks, grammar-backed *)

\* What self.parser is for a language:
\*   "none"       no parser (tree-sitter or the grammar missing): heuristic fallback
\*   "simple"     the SimpleParser of typescript_support
\*   "grammar"    a tree-sitter parser whose nodes pass the hasattr test of
\*                _extract_level_chunks, so that the tree is traversed
\*   "cursorless" a tree-sitter parser whose nodes have no goto_first_child
ParserStates == {"none", "simple", "grammar", "cursorless"}

\* tree.root_node and below: SimpleTree is one "program" node without children,
\* ending at row len(splitlines())
ParseTree(mode, src) ==
    IF mode = "simple"
    THEN << Node("root", 0, SplitLinesCount(SourceLines[src]), 0) >>
    ELSE SourceTree[src]

RECURSIVE Depth(_, _)
Depth(tree, n) == IF tree[n].up = 0 THEN 0 ELSE 1 + Depth(tree, tree[n].up)

RECURSIVE IsUnder(_, _, _)
IsUnder(tree, m, n) ==
    \/ m = n
    \/ tree[m].up # 0 /\ IsUnder(tree, tree[m].up, n)

\* _find_node_by_range: the first node in breadth-first order with these rows,
\* or 0 for None
find_node_by_range(tree, start_line, end_line) ==
    LET hits == { n \in DOMAIN tree : /\ tree[n].start_row = start_line
                                      /\ tree[n].end_row = end_line }
        Before(a, b) == \/ Depth(tree, a) < Depth(tree, b)
                        \/ Depth(tree, a) = Depth(tree, b) /\ a <= b
    IN IF hits = {} THEN 0
       ELSE CHOOSE n \in hits : \A m \in hits : Before(n, m)

\* not hasattr(node, 'goto_first_child') or hasattr(node, '_is_simplified_parser')
UsesSimplifiedPath(mode) == mode \in {"simple", "cursorless"}

RECURSIVE VisitFrom(_, _, _, _, _, _, _, _, _)
VisitFrom(m, tree, n, lines, file_path, lang, level, node_types, parent) ==
    IF m > Len(tree) THEN <<>>
    ELSE (IF IsUnder(tree, m, n) /\ NodeType(lang, tree[m].kind) \in node_types
          THEN << CodeChunk(LineTokens(lines, tree[m].start_row, tree[m].end_row),
                            file_path, lang, level, tree[m].start_row,
                            tree[m].end_row, NodeType(lang, tree[m].kind), parent) >>
          ELSE <<>>)
         \o VisitFrom(m + 1, tree, n, lines, file_path, lang, level, node_types, parent)

\* _extract_level_chunks on node n
extract_level_chunks(mode, tree, n, lines, file_path, lang, level, node_types, parent) ==
    IF UsesSimplifiedPath(mode)
    THEN << CodeChunk(ContentTokens(lines), file_path, lang, 2, 0,
                      CountNewlines(lines) + 1, "file", NoParent) >>
    ELSE VisitFrom(n, tree, n, lines, file_path, lang, level, node_types, parent)

Inside(c, func) == c.start_line <= func.start_line /\ c.end_line >= func.end_line

\* the part of extract_chunks after a successful parse
structured_extract_chunks(mode, tree, lines, file_path, lang, base_chunks) ==
    LET EL(n, level, types, parent) ==
            extract_level_chunks(mode, tree, n, lines, file_path, lang, level,
                                 types, parent)
        Under(c, level, types) ==
            LET n == find_node_by_range(tree, c.start_line, c.end_line)
            IN IF n # 0 THEN EL(n, level, types, ParentRef(c)) ELSE <<>>
        class_chunks == EL(1, 3, CLASS_MODULE_TYPES(lang), NoParent)
        nested == Flatten([k \in DOMAIN class_chunks |->
                              Under(class_chunks[k], 4, FUNCTION_METHOD_TYPES(lang))])
        function_chunks == EL(1, 4, FUNCTION_METHOD_TYPES(lang), NoParent)
        IsTopLevel(func) == ~\E k \in DOMAIN class_chunks : Inside(class_chunks[k], func)
        top_level_functions == SelectSeq(function_chunks, IsTopLevel)
        chunks == base_chunks \o class_chunks \o nested \o top_level_functions
        IsLevel4(c) == c.level = 4
        all_func_chunks == function_chunks \o SelectSeq(chunks, IsLevel4)
        statement_chunks ==
            Flatten([k \in DOMAIN all_func_chunks |->
                        Under(all_func_chunks[k], 5, STATEMENT_TYPES(lang))])
    IN chunks \o statement_chunks

\* the level-2 record extract_chunks starts with
FileChunk(file_path, lines, lang) ==
    CodeChunk(ContentTokens(lines), file_path, lang, 2, 0, CountNewlines(lines),
              "file", NoParent)

\* if not content.strip(): return []
IsBlank(lines) == estimate_tokens(ContentTokens(lines)) = 0

extract_chunks(file_path, src, lang, mode, raises) ==
    LET lines == SourceLines[src]
        chunks == << FileChunk(file_path, lines, lang) >>
    IN IF IsBlank(lines) THEN <<>>
       ELSE IF mode = "none" \/ raises
            THEN fallback_extract_chunks(file_path, lines, lang, chunks)
            ELSE structured_extract_chunks(mode, ParseTree(mode, src), lines,
                                           file_path, lang, chunks)

----------------------------------------------------------------------------
(* DirectoryChunker.chunk_directory, CodeChunkingManager.chunk_files,       *)
(* chunk_codebase                                                           *)

\* the directories of the files, in order of first appearance
RECURSIVE DirsOf(_)
DirsOf(paths) ==
    IF paths = <<>> THEN <<>>
    ELSE LET rest == DirsOf(SubSeq(paths, 1, Len(paths) - 1))
             d == PathInfo[paths[Len(paths)]].dirname
         IN IF d \in Range(rest) THEN rest ELSE Append(rest, d)

\* "Directory: <rel_dir>\n\nFiles:\n" and a line "- <rel_path>\n" per file
DirectoryText(dir_path, paths) ==
    LET InDir(p) == PathInfo[p].dirname = dir_path
        mine == SelectSeq(paths, InDir)
    IN << 2 + RelPathTokens(dir_path), 2 >>
       \o [k \in DOMAIN mine |-> 1 + RelPathTokens(mine[k])]

chunk_directory(paths) ==
    LET dirs == DirsOf(paths)
    IN [k \in DOMAIN dirs |->
           CodeChunk(DirectoryText(dirs[k], paths), dirs[k], "text", 1, 0, 0,
                     "directory", NoParent)]

\* the records chunk_files adds for one file
ChunkOneFile(file_path, contents, parsers, raising) ==
    IF file_path \notin DOMAIN contents THEN <<>>
    ELSE IF PathInfo[file_path].ext \in DOMAIN LANGUAGE_MAPPING
         THEN LET lang == LANGUAGE_MAPPING[PathInfo[file_path].ext]
              IN extract_chunks(file_path, contents[file_path], lang, parsers[lang],
                                file_path \in raising /\ parsers[lang] # "none")
         ELSE << FileChunk(file_path, SourceLines[contents[file_path]], "text") >>

get_model_context_length_Cached(env) == MODEL_CONTEXT_LENGTH

\* int(os.getenv("CURRENT_MODEL_CONTEXT_LENGTH", ...)): the value the
\* environment holds when the function is called
get_model_context_length(env) == env

\* int(get_model_context_length() * 0.8)
get_max_input_tokens(L) == (L * 8) \div 10

ChunkDirectory ==
    /\ pc = "chunk_start"
    /\ all_chunks' = chunk_directory(file_paths)
    /\ file_idx' = 1
    /\ pc' = "chunk_files"
    /\ UNCHANGED <<file_paths, file_contents, parser_state, parse_raises,
                   context_length, result, packVars, batchVars, auxVars, keyVars>>

ChunkFile ==
    /\ pc = "chunk_files"
    /\ file_idx <= Len(file_paths)
    /\ all_chunks' = all_chunks \o ChunkOneFile(file_paths[file_idx], file_contents,
                                                parser_state, parse_raises)
    /\ file_idx' = file_idx + 1
    /\ UNCHANGED <<pc, file_paths, file_contents, parser_state, parse_raises,
                   context_length, result, packVars, batchVars, auxVars, keyVars>>

\* chunk_codebase hands the records to create_overlapping_chunks with
\* max_tokens = get_max_input_tokens() and the default overlap_ratio
CallPacker ==
    /\ pc = "chunk_files"
    /\ file_idx > Len(file_paths)
    /\ max_tokens' = get_max_input_tokens(get_model_context_length(context_length))
    /\ overlap_tokens' =
          OverlapTokens(get_max_input_tokens(get_model_context_length(context_length)),
                        20)
    /\ pc' = "pack_start"
    /\ UNCHANGED <<chunkVars, sorted_chunks, chunk_idx, combined_chunks,
                   current_chunk_content, current_chunk_tokens, current_files,
                   current_hierarchy, overlap_chunks, batchVars, auxVars, keyVars>>

\* the pieces of a path between its ';' (no path of the model holds one)
PathParts(path) == <<path>>

SplitFiles_NamedOnly(files) == files \ {""}

\* chunk.file_path.split(";") of ";".join(current_files): the pieces of the
\* joined paths, in the order the set gave them; "".split(";") is [""]
SplitFiles(files) ==
    IF files = {} THEN {""}
    ELSE UNION { Range(PathParts(p)) : p \in files }

ResultDict_Continued(k, chunk) ==
    [ chunk_id    |-> k - 1 + Len(calls),
      content     |-> chunk.content,
      token_count |-> chunk.est_tokens,
      files       |-> SplitFiles(chunk.file_path) ]

ResultDict(k, chunk) ==
    [ chunk_id    |-> k - 1,
      content     |-> chunk.content,
      token_count |-> chunk.est_tokens,
      files       |-> SplitFiles(chunk.file_path) ]

ChunkResult ==
    /\ pc = "pack_done"
    /\ result' = [k \in DOMAIN combined_chunks |-> ResultDict(k, combined_chunks[k])]
    /\ pc' = "chunk_done"
    /\ UNCHANGED <<file_paths, file_contents, parser_state, parse_raises,
                   context_length, file_idx, all_chunks, packVars, batchVars, auxVars, keyVars>>

FilePaths == {"a.py", "b.ts", "c.txt", "d.md"}

FileLists ==
    { s \in BoundedSeq(FilePaths, MaxFiles) :
        \A a, b \in DOMAIN s : a # b => s[a] # s[b] }

\* what the imports at the top of code_chunking.py found
Environments ==
    { [python |-> "none",       typescript |-> "none"],       \* no tree_sitter
      [python |-> "none",       typescript |-> "simple"],     \* no language pack
      [python |-> "grammar",    typescript |-> "grammar"],
      [python |-> "cursorless", typescript |-> "cursorless"] }

ContextLengths == {300, 1250}

InitChunk ==
    /\ pc = "chunk_start"
    /\ file_paths \in FileLists
    /\ \E D \in SUBSET Range(file_paths) : file_contents \in [D -> Sources]
    /\ parser_state \in Environments
    /\ parse_raises \in { S \in SUBSET Range(file_paths) : Cardinality(S) <= 1 }
    /\ context_length \in ContextLengths
    /\ file_idx = 0
    /\ all_chunks = <<>>
    /\ result = <<>>
    /\ IdlePack
    /\ IdleBatch
    /\ IdleRun
    /\ IdleProc
    /\ IdleKeys
    /\ ImportedAt(context_length)
    /\ running = "chunk_codebase"

NextChunk ==
    \/ ChunkDirectory
    \/ ChunkFile
    \/ CallPacker
    \/ PackStart
    \/ PackStep
    \/ PackFlush
    \/ ChunkResult

SpecChunk == InitChunk /\ [][NextChunk]_vars

----------------------------------------------------------------------------
(* Claims about chunk_files and chunk_codebase *)

\* process_code_for_llm's default prompt_token_estimate
prompt_token_estimate == 200

\* the files chunk_files has gone through
ProcessedFiles ==
    IF pc = "chunk_start" THEN {}
    ELSE { file_paths[k] : k \in 1..(file_idx - 1) }

\* the files chunk_files handed to TreeSitterChunker.extract_chunks
HandedToExtractor(f) ==
    /\ f \in ProcessedFiles
    /\ f \in DOMAIN file_contents
    /\ PathInfo[f].ext \in DOMAIN LANGUAGE_MAPPING

\* the records of file f among all_chunks
RecordsFor(f) ==
    LET OfFile(c) == c.file_path = f /\ c.level >= 2
    IN SelectSeq(all_chunks, OfFile)

Level2RecordsFor(f) ==
    { k \in DOMAIN RecordsFor(f) : RecordsFor(f)[k].level = 2 }

SpansWholeFile(c, f) ==
    /\ c.start_line = 0
    /\ c.end_line = CountNewlines(SourceLines[file_contents[f]])

\* C2: the union of the files lists over all PackedChunks returned by
\* chunk_codebase is exactly the set of input file_paths (checked on the
\* inputs that give a content for every listed file).
C2_FilesCoverInput ==
    pc = "chunk_done" /\ Range(file_paths) \subseteq DOMAIN file_contents =>
        UNION { result[k].files : k \in DOMAIN result } = Range(file_paths)

\* C7: for every file handed to extract_chunks, with a traversed grammar tree,
\* with the simplified TypeScript parser and in heuristic fallback alike, the
\* returned records contain exactly one level-2 record, and it spans the file.
C7_OneFileRecord ==
    \A f \in ProcessedFiles :
        /\ HandedToExtractor(f)
        /\ parser_state[LANGUAGE_MAPPING[PathInfo[f].ext]] \in {"grammar", "simple", "none"}
        =>
            /\ Cardinality(Level2RecordsFor(f)) = 1
            /\ \A k \in Level2RecordsFor(f) : SpansWholeFile(RecordsFor(f)[k], f)

\* extraction of f failed: no parser for its language, or its parse raised
ExtractionFailed(f) ==
    /\ HandedToExtractor(f)
    /\ \/ parser_state[LANGUAGE_MAPPING[PathInfo[f].ext]] = "none"
       \/ f \in parse_raises

\* C8: if extraction of one file fails, the records of every other file are
\* what they are without that failure, and the failing file gets the heuristic
\* extraction: it still contributes its level-2 record.
C8_FailureIsolated ==
    \A f \in ProcessedFiles :
        ExtractionFailed(f) =>
            /\ \A g \in ProcessedFiles \ {f} :
                  RecordsFor(g) = ChunkOneFile(g, file_contents, parser_state,
                                               parse_raises \ {f})
            /\ RecordsFor(f) =
                  fallback_extract_chunks(
                      f, SourceLines[file_contents[f]],
                      LANGUAGE_MAPPING[PathInfo[f].ext],
                      << FileChunk(f, SourceLines[file_contents[f]],
                                   LANGUAGE_MAPPING[PathInfo[f].ext]) >>)
            /\ \E k \in Level2RecordsFor(f) : SpansWholeFile(RecordsFor(f)[k], f)

\* C10: every PackedChunk of chunk_codebase, other than the single oversized
\* record, has token_count <= max_input_tokens - prompt_token_estimate, and so
\* passes the size check of process_code_for_llm.
C10_FitsPromptBudget ==
    pc = "chunk_done" =>
        \A k \in DOMAIN result :
            \/ result[k].token_count
                  <= get_max_input_tokens(context_length) - prompt_token_estimate
            \/ SingleOversized(combined_chunks[k])

\* the PackedChunks of the result whose files hold f
ChunksNaming(f) == { k \in DOMAIN result : f \in result[k].files }

HasNoLanguage(f) == PathInfo[f].ext \notin DOMAIN LANGUAGE_MAPPING

\* C12: a file whose extension has no Language Registry entry yields at least
\* one level-2 record, and its path is in the files of exactly one PackedChunk
\* of the result, whatever else is packed in the run.
C12_UnknownExtensionOnce ==
    pc = "chunk_done" =>
        \A f \in Range(file_paths) :
            f \in DOMAIN file_contents /\ HasNoLanguage(f) =>
                /\ Level2RecordsFor(f) # {}
                /\ Cardinality(ChunksNaming(f)) = 1

\* C13: a listed file whose content is empty contributes a level-2 record and
\* is in the files of some PackedChunk, with or without a supported extension.
C13_EmptyFileKept ==
    pc = "chunk_done" =>
        \A f \in Range(file_paths) :
            f \in DOMAIN file_contents /\ file_contents[f] = "empty" =>
                /\ Level2RecordsFor(f) # {}
                /\ ChunksNaming(f) # {}

\* the estimated tokens of the whole text of f
FileTokens(f) == estimate_tokens(ContentTokens(SourceLines[file_contents[f]]))

\* the tokens of the records of file f held by combined chunk k
TokensFrom(k, f) ==
    SumTokens({ r \in RecordsOf(combined_chunks[k]) : sorted_chunks[r].file_path = f })

\* C14: two files that each fit in max_tokens but do not fit together are
\* packed into exactly two PackedChunks, one file each; what the second chunk
\* holds of the first file is an overlap slice of at most overlap_tokens.
C14_TwoFilesTwoChunks ==
    /\ pc = "chunk_done"
    /\ Len(file_paths) = 2
    /\ Range(file_paths) \subseteq DOMAIN file_contents
    /\ \A f \in Range(file_paths) : FileTokens(f) <= max_tokens
    /\ FileTokens(file_paths[1]) + FileTokens(file_paths[2]) > max_tokens
    => /\ Len(result) = 2
       /\ \E a, b \in Range(file_paths) :
             /\ a # b
             /\ result[1].files \cap Range(file_paths) = {a}
             /\ b \in result[2].files
             /\ TokensFrom(2, a) <= overlap_tokens

\* the file_path values of the records whose content a result chunk contains
PathsOfContent(content) ==
    { content[j].path : j \in { i \in DOMAIN content : content[i].kind = "rec" } }

\* C29: for every PackedChunk returned by chunk_codebase, files is exactly the
\* set of file_path values of the records whose content the chunk contains:
\* no path is listed without content from it, no content without its path.
C29_FilesMatchContent ==
    pc = "chunk_done" =>
        \A k \in DOMAIN result :
            /\ result[k].files = PathsOfContent(result[k].content)
            /\ \A j \in DOMAIN result[k].content :
                  /\ result[k].content[j].path \in result[k].files
                  /\ result[k].content[j].kind = "rec" =>
                        result[k].content[j].path
                           = sorted_chunks[result[k].content[j].rec].file_path

\* two PackedChunks, one of them with the directory record and two files
C29_Witness ==
    /\ pc = "chunk_done"
    /\ Len(result) >= 2
    /\ \E k \in DOMAIN result :
          /\ Cardinality(result[k].files) >= 3
          /\ \E j \in DOMAIN result[k].content : result[k].content[j].kind = "hdr"

----------------------------------------------------------------------------
(* TreeSitterChunker.extract_chunks on one file of a supported language *)

ExtractChunks ==
    /\ pc = "extract_start"
    /\ all_chunks' = ChunkOneFile(file_paths[1], file_contents, parser_state,
                                  parse_raises)
    /\ file_idx' = 2
    /\ pc' = "extract_done"
    /\ UNCHANGED <<file_paths, file_contents, parser_state, parse_raises,
                   context_length, result, packVars, batchVars, auxVars, keyVars>>

InitExtract ==
    /\ pc = "extract_start"
    /\ \E f \in {"a.py", "b.ts"} :
          /\ file_paths = <<f>>
          /\ file_contents \in [{f} -> DOMAIN SourceLines]
          /\ parse_raises \in SUBSET {f}
    /\ parser_state \in Environments
    /\ context_length = 0
    /\ file_idx = 1
    /\ all_chunks = <<>>
    /\ result = <<>>
    /\ IdlePack
    /\ IdleBatch
    /\ IdleRun
    /\ IdleProc
    /\ IdleKeys
    /\ ImportedAt(0)
    /\ running = "extract_chunks"

SpecExtract == InitExtract /\ [][ExtractChunks]_vars

\* the records of all_chunks a parent reference points to
ParentsOf(c) == { k \in DOMAIN all_chunks :
                    /\ all_chunks[k].file_path = c.file_path
                    /\ ParentRef(all_chunks[k]) = c.parent }

\* C20: whenever a level-4 record returned by extract_chunks has a parent, the
\* parent is a level-3 record of the same file and the level-4 record's line
\* range lies within the parent's range, in grammar-backed and in heuristic
\* extraction, also for files that declare two classes of the same name.
C20_ParentContains ==
    \A k \in DOMAIN all_chunks :
        all_chunks[k].level = 4 /\ all_chunks[k].parent # NoParent =>
            /\ all_chunks[k].parent.level = 3
            /\ ParentsOf(all_chunks[k]) # {}
            /\ all_chunks[k].parent.start_line <= all_chunks[k].start_line
            /\ all_chunks[k].end_line <= all_chunks[k].parent.end_line

\* the file goes through the grammar-backed part of extract_chunks: a parser
\* whose tree is traversed, a parse that does not raise, a text that is not blank
GrammarBacked(f) ==
    /\ f \in DOMAIN file_contents
    /\ PathInfo[f].ext \in DOMAIN LANGUAGE_MAPPING
    /\ parser_state[LANGUAGE_MAPPING[PathInfo[f].ext]] = "grammar"
    /\ f \notin parse_raises
    /\ ~IsBlank(SourceLines[file_contents[f]])

\* the function/method nodes of the syntax tree of f
FunctionNodes(f) ==
    LET lang == LANGUAGE_MAPPING[PathInfo[f].ext]
        tree == SourceTree[file_contents[f]]
    IN { n \in DOMAIN tree :
           NodeType(lang, tree[n].kind) \in FUNCTION_METHOD_TYPES(lang) }

\* the level-4 records extract_chunks returned for node n of the tree of f
Level4RecordsOf(f, n) ==
    LET tree == SourceTree[file_contents[f]]
    IN { k \in DOMAIN all_chunks :
           /\ all_chunks[k].level = 4
           /\ all_chunks[k].file_path = f
           /\ all_chunks[k].start_line = tree[n].start_row
           /\ all_chunks[k].end_line = tree[n].end_row }

\* C21: in grammar-backed extraction every function/method node of the syntax
\* tree yields exactly one level-4 record (nested under a class-type node or
\* top-level), never one as nested and one as top-level, never two as nested.
C21_OneRecordPerFunction ==
    pc = "extract_done" =>
        \A f \in Range(file_paths) :
            GrammarBacked(f) =>
                \A n \in FunctionNodes(f) :
                    Cardinality(Level4RecordsOf(f, n)) = 1

\* the file goes through _fallback_extract_chunks: no parser for its language,
\* or a parse that raised; its text is not blank
Heuristic(f) ==
    /\ f \in DOMAIN file_contents
    /\ PathInfo[f].ext \in DOMAIN LANGUAGE_MAPPING
    /\ \/ parser_state[LANGUAGE_MAPPING[PathInfo[f].ext]] = "none"
       \/ f \in parse_raises
    /\ ~IsBlank(SourceLines[file_contents[f]])

\* the rows of the function-like declaration lines of a text that no class
\* start takes first: a line matching both patterns is a class start as long
\* as no function was seen
FunctionRows(lines) ==
    { i \in 0..(Len(lines) - 1) :
        /\ FunctionMatch(lines[i + 1])
        /\ \/ ~ClassMatch(lines[i + 1])
           \/ \E j \in 0..(i - 1) : lines[j + 1].kind = "func" }

FirstFunctionRow(lines) ==
    CHOOSE i \in FunctionRows(lines) : \A j \in FunctionRows(lines) : i <= j

\* the rows before row r at which a class was started
ClassRowsBefore(lines, r) == { i \in 0..(r - 1) : ClassMatch(lines[i + 1]) }

\* the records of one level among all_chunks, in the order they were emitted
RecordsAtLevel(level) ==
    LET AtLevel(c) == c.level = level IN SelectSeq(all_chunks, AtLevel)

C30_NoDuplicateRecords ==
    pc = "extract_done" =>
        \A i, j \in DOMAIN all_chunks :
            i # j =>
                ~ /\ all_chunks[i].level = all_chunks[j].level
                  /\ all_chunks[i].node_type = all_chunks[j].node_type
                  /\ all_chunks[i].start_line = all_chunks[j].start_line
                  /\ all_chunks[i].end_line = all_chunks[j].end_line

----------------------------------------------------------------------------
(* process_code_for_llm *)

process_max_input_tokens_RoundUp(L) == (L * 8 + 9) \div 10

\* int(current_model_context_length * 0.8)
process_max_input_tokens(L) == (L * 8) \div 10

\* int(current_model_context_length * 0.2)
estimated_response_tokens(L) == (L * 2) \div 10

FitsBudget_NoOverhead(token_count, limit) ==
    token_count <= limit + prompt_token_estimate

\* chunk["token_count"] <= effective_max_tokens
FitsBudget(token_count, limit) == token_count <= limit

\* a piece of the template's own text
TplPiece == [kind |-> "tpl", rec |-> 0, path |-> ""]

\* prompt_template.replace("{code}", chunk["content"]), for a template with
\* text on both sides of its one "{code}"
PromptText(content) == <<TplPiece>> \o content \o <<TplPiece>>

\* f"{(total_tokens / max_input_tokens) * 100:.2f}%", in hundredths of a percent
Utilization(total_tokens, max_in) ==
    (2 * 10000 * total_tokens + max_in) \div (2 * max_in)

PreparedPrompt(chunk, L, max_in) ==
    [ prompt                    |-> PromptText(chunk.content),
      chunk_id                  |-> chunk.chunk_id,
      files                     |-> chunk.files,
      token_count               |-> chunk.token_count,
      estimated_tokens          |-> chunk.token_count + prompt_token_estimate,
      token_utilization         |-> Utilization(chunk.token_count
                                                   + prompt_token_estimate, max_in),
      level                     |-> "unknown",
      overlap_percentage        |-> 0,
      estimated_response_tokens |-> estimated_response_tokens(L) ]

\* lines 47-52: the environment is read, the budget derived from it
ProcessStart ==
    /\ pc = "process_start"
    /\ running = "process_code_for_llm"
    /\ current_model_context_length' = context_length
    /\ max_input_tokens' = process_max_input_tokens(context_length)
    /\ effective_max_tokens' =
          process_max_input_tokens(context_length) - prompt_token_estimate
    /\ pc' = "chunk_start"
    /\ UNCHANGED <<proc_chunks, chunk_pos, estimate, chunkVars, packVars,
                   batchVars, runVars, sessVars, keyVars>>

\* chunks = chunk_codebase(base_dir, file_paths, file_contents)
ProcessReceive ==
    /\ pc = "chunk_done"
    /\ running = "process_code_for_llm"
    /\ proc_chunks' = result
    /\ chunk_pos' = 1
    /\ prepared_prompts' = <<>>
    /\ pc' = "process_loop"
    /\ UNCHANGED <<current_model_context_length, max_input_tokens,
                   effective_max_tokens, estimate, chunkVars, packVars,
                   max_retries, prompt_idx, retry_count, success, in_flight,
                   results, call_log, runVars, sessVars, keyVars>>

\* one iteration of "for chunk in chunks"
ProcessChunk ==
    /\ pc = "process_loop"
    /\ chunk_pos <= Len(proc_chunks)
    /\ prepared_prompts' =
          IF FitsBudget(proc_chunks[chunk_pos].token_count, effective_max_tokens)
          THEN Append(prepared_prompts,
                      PreparedPrompt(proc_chunks[chunk_pos],
                                     current_model_context_length,
                                     max_input_tokens))
          ELSE prepared_prompts
    /\ chunk_pos' = chunk_pos + 1
    /\ UNCHANGED <<pc, current_model_context_length, max_input_tokens,
                   effective_max_tokens, proc_chunks, estimate, chunkVars,
                   packVars, max_retries, prompt_idx, retry_count, success,
                   in_flight, results, call_log, runVars, sessVars, keyVars>>

\* return prepared_prompts
ProcessReturn ==
    /\ pc = "process_loop"
    /\ chunk_pos > Len(proc_chunks)
    /\ pc' = "process_done"
    /\ UNCHANGED <<chunkVars, packVars, batchVars, auxVars, keyVars>>

\* the context lengths process_code_for_llm is run under: two that make it
\* skip chunks, the default and a large one
ProcessContextLengths == {1000, 1250, 8192, 128000}

\* a call of process_code_for_llm on files that all have a content and parse
InitProcess ==
    /\ pc = "process_start"
    /\ file_paths \in FileLists
    /\ file_contents \in [Range(file_paths) -> Sources]
    /\ parser_state \in Environments
    /\ parse_raises = {}
    /\ context_length \in ProcessContextLengths
    /\ file_idx = 0
    /\ all_chunks = <<>>
    /\ result = <<>>
    /\ IdlePack
    /\ IdleBatch
    /\ IdleRun
    /\ IdleProc
    /\ IdleKeys
    /\ ImportedAt(context_length)
    /\ running = "process_code_for_llm"

NextProcess ==
    \/ ProcessStart
    \/ ChunkDirectory
    \/ ChunkFile
    \/ CallPacker
    \/ PackStart
    \/ PackStep
    \/ PackFlush
    \/ ChunkResult
    \/ ProcessReceive
    \/ ProcessChunk
    \/ ProcessReturn

SpecProcess == InitProcess /\ [][NextProcess]_vars

----------------------------------------------------------------------------
(* Claims about process_code_for_llm *)

\* the chunks the loop of process_code_for_llm has gone through
ChunksSeen == IF pc \in {"process_loop", "process_done"}
              THEN 1..(chunk_pos - 1) ELSE {}

PromptsOf(k) == { j \in DOMAIN prepared_prompts :
                    prepared_prompts[j].chunk_id = proc_chunks[k].chunk_id }

\* C11: a prompt is emitted for a PackedChunk if and only if token_count +
\* prompt_token_estimate <= max_input_tokens; the prompts keep the chunks'
\* order and chunk_id, one per fitting chunk whatever was skipped, and each has
\* estimated_tokens <= max_input_tokens and a utilization of at most 100%.
C11_PromptIffFits ==
    pc \in {"process_loop", "process_done"} =>
        /\ \A k \in ChunksSeen :
              /\ PromptsOf(k) # {}
                    <=> proc_chunks[k].token_count + prompt_token_estimate
                            <= (context_length * 8) \div 10
              /\ Cardinality(PromptsOf(k)) <= 1
              /\ \A j \in PromptsOf(k) :
                    /\ prepared_prompts[j].token_count = proc_chunks[k].token_count
                    /\ prepared_prompts[j].files = proc_chunks[k].files
                    /\ prepared_prompts[j].prompt
                          = <<TplPiece>> \o proc_chunks[k].content \o <<TplPiece>>
        /\ \A j \in DOMAIN prepared_prompts :
              /\ \E k \in ChunksSeen : j \in PromptsOf(k)
              /\ prepared_prompts[j].estimated_tokens <= (context_length * 8) \div 10
              /\ prepared_prompts[j].token_utilization <= 10000
              /\ \A i \in DOMAIN prepared_prompts :
                    i < j => prepared_prompts[i].chunk_id < prepared_prompts[j].chunk_id

\* a run that emitted a prompt for one chunk and skipped another
C11_Witness ==
    /\ pc = "process_done"
    /\ \E k \in ChunksSeen : PromptsOf(k) = {}
    /\ \E k \in ChunksSeen : PromptsOf(k) # {}

\* m is floor(share/10 * L)
IsFloorShare(m, share, L) == 10 * m <= share * L /\ share * L < 10 * (m + 1)

\* C16: for every configured context length L, max_input_tokens is
\* floor(0.8 * L) and reserved_response_tokens is floor(0.2 * L), so they never
\* sum to more than L; L = 128000 gives 102400 and 25600, L = 8192 gives 6553
\* and 1639 up to a rounding by one.
C16_BudgetShares ==
    /\ pc \in {"pack_start", "pack_loop", "pack_done"} =>
          IsFloorShare(max_tokens, 8, context_length)
    /\ pc \notin {"process_start"} =>
          /\ IsFloorShare(max_input_tokens, 8, context_length)
          /\ \A j \in DOMAIN prepared_prompts :
                LET reserved == prepared_prompts[j].estimated_response_tokens
                IN /\ IsFloorShare(reserved, 2, context_length)
                   /\ max_input_tokens + reserved <= context_length
                   /\ context_length = 128000 =>
                         max_input_tokens = 102400 /\ reserved = 25600
                   /\ context_length = 8192 =>
                         max_input_tokens = 6553 /\ reserved \in 1638..1640

\* a prompt prepared under the default context length of 8192
C16_Witness ==
    /\ pc = "process_done"
    /\ context_length = 8192
    /\ prepared_prompts # <<>>
    /\ max_tokens = 6553

----------------------------------------------------------------------------
(* estimate_model_calls, and a process that calls the three entry points    *)
(* one after the other, changing CURRENT_MODEL_CONTEXT_LENGTH in between    *)

MaxCalls == 2           \* calls the process makes

\* len(content) of the texts
SourceChars ==
    [ src \in DOMAIN SourceLines |->
        CASE src = "empty" -> 0
          [] src = "stmt"  -> 5
          [] src = "func"  -> 1205
          [] src = "class" -> 1200
          [] src = "twins" -> 45 ]

RECURSIVE SumChars(_, _)
SumChars(contents, S) ==
    IF S = {} THEN 0
    ELSE LET f == CHOOSE x \in S : TRUE
         IN SourceChars[contents[f]] + SumChars(contents, S \ {f})

\* int(a / b) for a >= 0: the quotient, rounded toward zero
TruncDiv(a, b) == IF b > 0 THEN a \div b ELSE -(a \div (-b))

Max(a, b) == IF a >= b THEN a ELSE b

\* estimate_model_calls' default prompt_token_overhead
prompt_token_overhead == 200

\* the dictionary estimate_model_calls returns when the environment holds L
\* (effective_max_tokens is not zero for the context lengths of the model)
estimate_model_calls(paths, contents, L) ==
    LET max_in == (L * 8) \div 10
        total_chars == SumChars(contents, DOMAIN contents)
        effective == max_in - prompt_token_overhead
        estimated_chunks == Max(1, TruncDiv(total_chars, 4 * effective) + 1)
    IN [ files                     |-> Len(paths),
         estimated_code_tokens     |-> total_chars \div 4,
         estimated_chunks          |-> estimated_chunks,
         estimated_input_tokens    |->
             (total_chars + 4 * prompt_token_overhead * estimated_chunks) \div 4,
         estimated_response_tokens |-> (estimated_chunks * L * 2) \div 10,
         total_tokens              |->
             (5 * total_chars + 20 * prompt_token_overhead * estimated_chunks
                + 4 * estimated_chunks * L) \div 20,
         model_context_length      |-> L,
         max_input_tokens          |-> max_in ]

EntryPoints == {"chunk_codebase", "process_code_for_llm", "estimate_model_calls"}

EntryLabel(fn) ==
    CASE fn = "chunk_codebase"       -> "chunk_start"
      [] fn = "process_code_for_llm" -> "process_start"
      [] fn = "estimate_model_calls" -> "estimate_start"

\* the file sets the process passes
SessionInputs ==
    { [paths |-> <<"a.py", "b.ts">>, contents |-> [f \in {"a.py", "b.ts"} |-> "func"]],
      [paths |-> <<"c.txt">>,        contents |-> [f \in {"c.txt"} |-> "stmt"]] }

SessionContextLengths == {1250, 8192}

\* os.environ["CURRENT_MODEL_CONTEXT_LENGTH"] = ..., between two calls
Reconfigure ==
    /\ pc = "idle"
    /\ \E L \in SessionContextLengths \ {context_length} : context_length' = L
    /\ UNCHANGED <<pc, file_paths, file_contents, parser_state, parse_raises,
                   file_idx, all_chunks, result, packVars, batchVars, auxVars, keyVars>>

\* the process calls one of the entry points
Invoke(fn, input) ==
    /\ pc = "idle"
    /\ Len(calls) < MaxCalls
    /\ running' = fn
    /\ file_paths' = input.paths
    /\ file_contents' = input.contents
    /\ pc' = EntryLabel(fn)
    /\ UNCHANGED <<parser_state, parse_raises, context_length, file_idx,
                   all_chunks, result, packVars, batchVars, runVars, procVars,
                   MODEL_CONTEXT_LENGTH, calls, keyVars>>

InvokeAny == \E fn \in EntryPoints : \E input \in SessionInputs : Invoke(fn, input)

EstimateModelCalls ==
    /\ pc = "estimate_start"
    \* estimate holds the returned dictionary, once there is one
    /\ estimate' = <<estimate_model_calls(file_paths, file_contents, context_length)>>
    /\ pc' = "estimate_done"
    /\ UNCHANGED <<current_model_context_length, max_input_tokens,
                   effective_max_tokens, proc_chunks, chunk_pos, chunkVars,
                   packVars, batchVars, runVars, sessVars, keyVars>>

\* the value the entry point returned
Returned(fn) ==
    CASE fn = "chunk_codebase"       -> result
      [] fn = "process_code_for_llm" -> prepared_prompts
      [] fn = "estimate_model_calls" -> estimate

DoneLabel(fn) ==
    CASE fn = "chunk_codebase"       -> "chunk_done"
      [] fn = "process_code_for_llm" -> "process_done"
      [] fn = "estimate_model_calls" -> "estimate_done"

\* the entry point returns to the process
Return ==
    /\ running \in EntryPoints
    /\ pc = DoneLabel(running)
    /\ calls' = Append(calls, [ fn      |-> running,
                                L       |-> context_length,
                                input   |-> [paths |-> file_paths,
                                             contents |-> file_contents],
                                output  |-> Returned(running) ])
    /\ running' = "none"
    /\ pc' = "idle"
    /\ UNCHANGED <<chunkVars, packVars, batchVars, runVars, procVars,
                   MODEL_CONTEXT_LENGTH, keyVars>>

InitSession ==
    /\ pc = "idle"
    /\ running = "none"
    /\ context_length \in SessionContextLengths
    /\ ImportedAt(context_length)
    /\ parser_state \in Environments
    /\ file_paths = <<>>
    /\ file_contents = <<>>
    /\ parse_raises = {}
    /\ file_idx = 0
    /\ all_chunks = <<>>
    /\ result = <<>>
    /\ IdlePack
    /\ IdleBatch
    /\ IdleRun
    /\ IdleProc
    /\ IdleKeys

NextSession ==
    \/ Reconfigure
    \/ InvokeAny
    \/ EstimateModelCalls
    \/ Return
    \/ ProcessStart
    \/ ChunkDirectory
    \/ ChunkFile
    \/ CallPacker
    \/ PackStart
    \/ PackStep
    \/ PackFlush
    \/ ChunkResult
    \/ ProcessReceive
    \/ ProcessChunk
    \/ ProcessReturn

SpecSession == InitSession /\ [][NextSession]_vars

----------------------------------------------------------------------------
(* Claims about the budget across calls *)

\* the budget was derived from context length L
BudgetOf(L, max_in, reserved) ==
    /\ IsFloorShare(max_in, 8, L)
    /\ IsFloorShare(reserved, 2, L)

\* C15: the Budget is recomputed from the configured context length on every
\* call: a call of chunk_codebase, process_code_for_llm or estimate_model_calls
\* made after the configuration changed sizes chunks and prompts from the new
\* value, never from the value read at import or during an earlier call.
C15_BudgetPerCall ==
    /\ pc \in {"pack_start", "pack_loop", "pack_done"} =>
          /\ IsFloorShare(max_tokens, 8, context_length)
          /\ overlap_tokens = (max_tokens * 20) \div 100
    /\ running = "process_code_for_llm" /\ pc # "process_start" =>
          /\ current_model_context_length = context_length
          /\ IsFloorShare(max_input_tokens, 8, context_length)
          /\ effective_max_tokens = max_input_tokens - prompt_token_estimate
          /\ pc \in {"process_loop", "process_done"} =>
                \A j \in DOMAIN prepared_prompts :
                    BudgetOf(context_length, max_input_tokens,
                             prepared_prompts[j].estimated_response_tokens)
    /\ \A n \in DOMAIN calls :
          /\ calls[n].fn = "estimate_model_calls" =>
                LET e == calls[n].output[1]
                IN /\ e.model_context_length = calls[n].L
                   /\ IsFloorShare(e.max_input_tokens, 8, calls[n].L)
                   /\ IsFloorShare(e.estimated_response_tokens,
                                   2 * e.estimated_chunks, calls[n].L)
          /\ calls[n].fn = "process_code_for_llm" =>
                \A j \in DOMAIN calls[n].output :
                    IsFloorShare(calls[n].output[j].estimated_response_tokens,
                                 2, calls[n].L)

\* a second call packs under a context length that differs from the one of the
\* first call and from the one the module was imported under
C15_Witness ==
    /\ pc = "pack_loop"
    /\ Len(calls) = 1
    /\ calls[1].L # context_length
    /\ MODEL_CONTEXT_LENGTH # context_length
    /\ combined_chunks # <<>>

\* the same call: same entry point, same files and contents, same Budget
SameCall(a, b) == a.fn = b.fn /\ a.input = b.input /\ a.L = b.L

\* C17: two runs of chunk_codebase on identical file_paths and file_contents
\* under the same Budget return the same number of PackedChunks, with the same
\* content, token_count and chunk_id, in the same order.
C17_Deterministic ==
    \A i, j \in DOMAIN calls :
        /\ i < j
        /\ calls[i].fn = "chunk_codebase"
        /\ SameCall(calls[i], calls[j])
        => /\ Len(calls[i].output) = Len(calls[j].output)
           /\ \A k \in DOMAIN calls[i].output :
                 /\ calls[i].output[k].content = calls[j].output[k].content
                 /\ calls[i].output[k].token_count = calls[j].output[k].token_count
                 /\ calls[i].output[k].chunk_id = calls[j].output[k].chunk_id

\* chunk_codebase returned twice for the same files under the same Budget,
\* with several PackedChunks
C17_Witness ==
    /\ Len(calls) >= 2
    /\ calls[1].fn = "chunk_codebase"
    /\ SameCall(calls[1], calls[2])
    /\ Len(calls[1].output) >= 2

----------------------------------------------------------------------------
(* setup_exit_handler (keyboard_handler.py): the hotkey callback on_exit_key *)
(* and the thread reset_confirmation share the dictionary confirm_state.    *)
(* The keyboard library serves the presses one after the other on its own   *)
(* thread; the reset thread runs beside it.  A step of either thread is one *)
(* statement (one test, or one store into the dictionary).  Time does not   *)
(* advance while a press is served: the callback is as fast as can be.      *)

MaxElapsed == 7         \* seconds of clock time a run covers
MaxPresses == 3         \* presses of Ctrl+Shift+C in a run

\* confirm_state["confirmation_window"]
confirmation_window == 5

\* time.time() when the handler is set up: seconds since the epoch, far more
\* than confirmation_window away from the initial timestamp 0
StartTime == 10

\* time.sleep(1) of the reset thread
reset_period == 1

NotAsked == 0 - 1

\* time.time() - confirm_state["timestamp"] <= confirm_state["confirmation_window"]
WithinWindow(now, timestamp) == now - timestamp <= confirmation_window

\* time.time() - confirm_state["timestamp"] > confirm_state["confirmation_window"]
WindowExpired(now, timestamp) == now - timestamp > confirmation_window

Served(outcome) == [at |-> press_at, asked |-> asked_at, outcome |-> outcome]

\* the clock advances between presses (and at any point of the reset thread)
Tick ==
    /\ key_pc = "idle"
    /\ ~signal_sent
    /\ clock < StartTime + MaxElapsed
    /\ clock' = clock + 1
    /\ UNCHANGED <<confirm_state, key_pc, press_at, reset_pc, wake_at, asked_at,
                   key_log, signal_sent, pc, chunkVars, packVars, batchVars, auxVars>>

\* the hotkey fires: the library calls on_exit_key
KeyPress ==
    /\ key_pc = "idle"
    /\ ~signal_sent
    /\ Len(key_log) < MaxPresses
    /\ key_pc' = "test_pending"
    /\ press_at' = clock
    /\ UNCHANGED <<confirm_state, clock, reset_pc, wake_at, asked_at, key_log,
                   signal_sent, pc, chunkVars, packVars, batchVars, auxVars>>

\* if not confirm_state["pending"]: confirm_state["pending"] = True
KeyTestPending ==
    /\ key_pc = "test_pending"
    /\ IF ~confirm_state.pending
       THEN /\ confirm_state' = [confirm_state EXCEPT !.pending = TRUE]
            /\ key_pc' = "stamp_first"
       ELSE /\ key_pc' = "test_window"
            /\ UNCHANGED confirm_state
    /\ UNCHANGED <<clock, press_at, reset_pc, wake_at, asked_at, key_log,
                   signal_sent, pc, chunkVars, packVars, batchVars, auxVars>>

\* confirm_state["timestamp"] = time.time(); print "Press ... again within 5 seconds"
KeyStampFirst ==
    /\ key_pc = "stamp_first"
    /\ confirm_state' = [confirm_state EXCEPT !.timestamp = clock]
    /\ asked_at' = clock
    /\ key_log' = Append(key_log, Served("asked"))
    /\ key_pc' = "idle"
    /\ UNCHANGED <<clock, press_at, reset_pc, wake_at, signal_sent, pc,
                   chunkVars, packVars, batchVars, auxVars>>

\* if time.time() - confirm_state["timestamp"] <= confirm_state["confirmation_window"]
KeyTestWindow ==
    /\ key_pc = "test_window"
    /\ key_pc' = IF WithinWindow(clock, confirm_state.timestamp)
                 THEN "confirmed" ELSE "stamp_again"
    /\ UNCHANGED <<confirm_state, clock, press_at, reset_pc, wake_at, asked_at,
                   key_log, signal_sent, pc, chunkVars, packVars, batchVars, auxVars>>

\* confirm_state["pending"] = False; os.kill(os.getpid(), signal.SIGTERM)
KeyConfirmed ==
    /\ key_pc = "confirmed"
    /\ confirm_state' = [confirm_state EXCEPT !.pending = FALSE]
    /\ signal_sent' = TRUE
    /\ key_log' = Append(key_log, Served("terminated"))
    /\ key_pc' = "idle"
    /\ UNCHANGED <<clock, press_at, reset_pc, wake_at, asked_at, pc,
                   chunkVars, packVars, batchVars, auxVars>>

\* confirm_state["timestamp"] = time.time(); print "Confirmation window expired. Press ..."
KeyStampAgain ==
    /\ key_pc = "stamp_again"
    /\ confirm_state' = [confirm_state EXCEPT !.timestamp = clock]
    /\ asked_at' = clock
    /\ key_log' = Append(key_log, Served("asked again"))
    /\ key_pc' = "idle"
    /\ UNCHANGED <<clock, press_at, reset_pc, wake_at, signal_sent, pc,
                   chunkVars, packVars, batchVars, auxVars>>

\* reset_confirmation: if confirm_state["pending"]:
ResetTestPending ==
    /\ reset_pc = "test_pending"
    /\ ~signal_sent
    /\ IF confirm_state.pending
       THEN /\ reset_pc' = "test_expired"
            /\ UNCHANGED wake_at
       ELSE /\ reset_pc' = "sleep"
            /\ wake_at' = clock + reset_period
    /\ UNCHANGED <<confirm_state, clock, key_pc, press_at, asked_at, key_log,
                   signal_sent, pc, chunkVars, packVars, batchVars, auxVars>>

\* if time.time() - confirm_state["timestamp"] > confirm_state["confirmation_window"]:
ResetTestExpired ==
    /\ reset_pc = "test_expired"
    /\ ~signal_sent
    /\ IF WindowExpired(clock, confirm_state.timestamp)
       THEN /\ reset_pc' = "clear"
            /\ UNCHANGED wake_at
       ELSE /\ reset_pc' = "sleep"
            /\ wake_at' = clock + reset_period
    /\ UNCHANGED <<confirm_state, clock, key_pc, press_at, asked_at, key_log,
                   signal_sent, pc, chunkVars, packVars, batchVars, auxVars>>

\* confirm_state["pending"] = False, then time.sleep(1)
ResetClear ==
    /\ reset_pc = "clear"
    /\ ~signal_sent
    /\ confirm_state' = [confirm_state EXCEPT !.pending = FALSE]
    /\ reset_pc' = "sleep"
    /\ wake_at' = clock + reset_period
    /\ UNCHANGED <<clock, key_pc, press_at, asked_at, key_log, signal_sent, pc,
                   chunkVars, packVars, batchVars, auxVars>>

\* time.sleep(1) returns: the next round of "while True"
ResetWake ==
    /\ reset_pc = "sleep"
    /\ ~signal_sent
    /\ clock >= wake_at
    /\ reset_pc' = "test_pending"
    /\ UNCHANGED <<confirm_state, clock, key_pc, press_at, wake_at, asked_at,
                   key_log, signal_sent, pc, chunkVars, packVars, batchVars, auxVars>>

\* the state after setup_exit_handler started its two threads
InitExitHandler ==
    /\ pc = "idle"
    /\ confirm_state = [pending |-> FALSE, timestamp |-> 0]
    /\ clock = StartTime
    /\ key_pc = "idle"
    /\ press_at = 0
    /\ reset_pc = "test_pending"
    /\ wake_at = 0
    /\ asked_at = NotAsked
    /\ key_log = <<>>
    /\ signal_sent = FALSE
    /\ IdleChunk
    /\ all_chunks = <<>>
    /\ IdlePack
    /\ IdleBatch
    /\ IdleRun
    /\ current_model_context_length = 0
    /\ max_input_tokens = 0
    /\ effective_max_tokens = 0
    /\ proc_chunks = <<>>
    /\ chunk_pos = 0
    /\ estimate = <<>>
    /\ ImportedAt(0)
    /\ running = "setup_exit_handler"

NextExitHandler ==
    \/ Tick
    \/ KeyPress
    \/ KeyTestPending
    \/ KeyStampFirst
    \/ KeyTestWindow
    \/ KeyConfirmed
    \/ KeyStampAgain
    \/ ResetTestPending
    \/ ResetTestExpired
    \/ ResetClear
    \/ ResetWake

SpecExitHandler == InitExitHandler /\ [][NextExitHandler]_vars

\* C22: whenever the handler has asked for confirmation (after a first press,
\* or after a press that found the window expired), another press within the
\* confirmation window of that request sends the termination signal, under
\* every interleaving of the hotkey callback with the reset thread.
C22_ConfirmTerminates ==
    \A k \in DOMAIN key_log :
        /\ key_log[k].asked # NotAsked
        /\ key_log[k].at - key_log[k].asked <= confirmation_window
        => key_log[k].outcome = "terminated"

====
